---- MODULE Spec2Model ----
(***************************************************************************)
(* A model of the spreadsheet-as-database engine of the Vila Acadia        *)
(* timesheet backend (src/src/backend/gsheets_service.py).                 *)
(*                                                                         *)
(* The remote spreadsheet is a set of worksheets, each a sparse grid of    *)
(* cells.  Text is a tuple of one-character strings, so that strip() and   *)
(* lower() are computed character by character.  Numbers are integers in   *)
(* hundredths (8.00 hours is 800).  A formula is a record of its operands. *)
(***************************************************************************)
EXTENDS Integers, Sequences, FiniteSets, TLC

VARIABLES
    sheets,     \* the spreadsheet: worksheet title -> cells (<<row, col>> -> value)
    last,       \* the most recent call: its arguments, result and the writes it issued
    accepted,   \* history: <<title, normalised name, date>> -> hours of the successful submit_hours
    nops,       \* number of calls made so far
    procs       \* the in-flight submissions of the interleaved specification

vars == <<sheets, last, accepted, nops, procs>>

----------------------------------------------------------------------------
(* Bounds of the model *)

MaxOps == 2          \* calls per behaviour, after those that filled the initial sheet

(* Layout constants of the program *)

HEADER_ROW == 5
FIRST_EMPLOYEE_ROW == 6
MAX_EMPLOYEE_ROW == 75
MAX_EMPLOYEES == 70
FORMULA_LAST_ROW == 70
NUMBERS_LAST_ROW == 75
NAME_COL == 2
FIRST_DATE_COL == 3
SHEET_ROWS == 100
SHEET_COLS == 50

----------------------------------------------------------------------------
(* Text *)

UPPER == <<"A","B","C","D","E","F","G","H","I","J","K","L","M",
           "N","O","P","Q","R","S","T","U","V","W","X","Y","Z">>
LOWER == <<"a","b","c","d","e","f","g","h","i","j","k","l","m",
           "n","o","p","q","r","s","t","u","v","w","x","y","z">>
DIGITS == <<"0","1","2","3","4","5","6","7","8","9">>

\* str.lower() on one character
LowerChar(c) ==
    IF \E i \in 1..26 : UPPER[i] = c
    THEN LOWER[CHOOSE i \in 1..26 : UPPER[i] = c]
    ELSE c

\* str.lower()
Lower(s) == [i \in 1..Len(s) |-> LowerChar(s[i])]

IsSpace(c) == c = " "

RECURSIVE LStrip(_)
LStrip(s) == IF s # <<>> /\ IsSpace(Head(s)) THEN LStrip(Tail(s)) ELSE s

RECURSIVE RStrip(_)
RStrip(s) ==
    IF s # <<>> /\ IsSpace(s[Len(s)]) THEN RStrip(SubSeq(s, 1, Len(s) - 1)) ELSE s

\* str.strip()
Strip(s) == RStrip(LStrip(s))

\* decimal digits of a natural number
RECURSIVE NatText(_)
NatText(n) ==
    IF n < 10 THEN <<DIGITS[n + 1]>> ELSE NatText(n \div 10) \o <<DIGITS[(n % 10) + 1]>>

\* a natural number zero-padded to at least w digits (strftime %d, %m, %Y)
RECURSIVE Pad(_, _)
Pad(s, w) == IF Len(s) >= w THEN s ELSE Pad(<<"0">> \o s, w)

\* the digits of the index in plain base 26, the decrement left out
RECURSIVE _col_index_to_letter_Base26(_)
_col_index_to_letter_Base26(col_index) ==
    IF col_index <= 0 THEN <<>>
    ELSE _col_index_to_letter_Base26(col_index \div 26) \o <<UPPER[(col_index % 26) + 1]>>

\* the column letters of a 1-based column index
RECURSIVE _col_index_to_letter(_)
_col_index_to_letter(col_index) ==
    IF col_index <= 0 THEN <<>>
    ELSE _col_index_to_letter((col_index - 1) \div 26)
             \o <<UPPER[((col_index - 1) % 26) + 1]>>

TOTAL_TIP == <<"T","O","T","A","L"," ","T","I","P">>
TOTAL_HOURS == <<"T","O","T","A","L"," ","H","O","U","R","S">>
TIP_PER_HOUR == <<"T","I","P"," ","P","E","R"," ","H","O","U","R">>
HOURS == <<"H","O","U","R","S">>
\* the header of the name column (a Hebrew literal in the source: "employee name")
NAME_HEADER == <<"s","h","e","m"," ","h","a","o","v","e","d">>

----------------------------------------------------------------------------
(* Dates *)

MkDate(y, m, d) == [y |-> y, m |-> m, d |-> d]

\* strftime("%d/%m/%Y")
DateFormatted(date) ==
    Pad(NatText(date.d), 2) \o <<"/">> \o Pad(NatText(date.m), 2)
        \o <<"/">> \o Pad(NatText(date.y), 4)

\* SheetName with the day in it: strftime("%d-%m-%Y")
SheetName_WithDay(date) ==
    Pad(NatText(date.d), 2) \o <<"-">> \o Pad(NatText(date.m), 2)
        \o <<"-">> \o Pad(NatText(date.y), 4)

\* strftime("%m-%Y")
SheetName(date) == Pad(NatText(date.m), 2) \o <<"-">> \o Pad(NatText(date.y), 4)

----------------------------------------------------------------------------
(* Cell values and the worksheet *)

EMPTY == [empty |-> TRUE]
Text(s) == [text |-> s]
Num(n) == [num |-> n]
\* =SUM({col}{first}:{col}{last})
SumFormula(col, first, lst) == [sum |-> [col |-> col, first |-> first, last |-> lst]]
\* ={col}{nrow}/{col}{drow}
QuotFormula(col, nrow, drow) == [quot |-> [col |-> col, nrow |-> nrow, drow |-> drow]]
\* ={col}{row}*${rcol}${rrow}
ProdFormula(col, row, rcol, rrow) ==
    [prod |-> [col |-> col, row |-> row, rcol |-> rcol, rrow |-> rrow]]

IsText(v) == DOMAIN v = {"text"}
IsNum(v) == DOMAIN v = {"num"}

\* the text a number is displayed as: n is in hundredths
NumText(n) ==
    IF n % 100 = 0 THEN NatText(n \div 100)
    ELSE NatText(n \div 100) \o <<".">> \o Pad(NatText(n % 100), 2)

\* Cell.value: the displayed text of a cell, <<>> for an empty cell (None).
\* A formula cell always displays something, a number or an error marker.
Value(v) ==
    IF v = EMPTY THEN <<>>
    ELSE IF IsText(v) THEN v.text
    ELSE IF IsNum(v) THEN NumText(v.num)
    ELSE <<"#">>

\* worksheet.cell(r, c)
Cell(cells, r, c) == IF <<r, c>> \in DOMAIN cells THEN cells[<<r, c>>] ELSE EMPTY

\* the cell of the worksheet titled t, empty when the spreadsheet has no such worksheet
CellAt(book, t, r, c) == IF t \in DOMAIN book THEN Cell(book[t], r, c) ELSE EMPTY

Max(S) == IF S = {} THEN 0 ELSE CHOOSE x \in S : \A y \in S : y <= x

\* worksheet.col_values(c): the column down to its last non-empty cell
col_values(cells, c) ==
    LET n == Max({k[1] : k \in {x \in DOMAIN cells : x[2] = c}})
    IN  [r \in 1..n |-> Value(Cell(cells, r, c))]

\* worksheet.row_values(r): the row up to its last non-empty cell
row_values(cells, r) ==
    LET n == Max({k[2] : k \in {x \in DOMAIN cells : x[1] = r}})
    IN  [c \in 1..n |-> Value(Cell(cells, r, c))]

\* A worksheet handle: the cells and the log of the writes issued through it.
\* A write is a set of <<row, col, value>>: one cell or one range.
Handle(cells) == [cells |-> cells, log |-> <<>>]

Put(cells, w) ==
    LET at == {<<x[1], x[2]>> : x \in w}
        val(k) == (CHOOSE x \in w : x[1] = k[1] /\ x[2] = k[2])[3]
    IN  [k \in at |-> val(k)] @@ cells

\* worksheet.update(range, values)
update(W, w) == [cells |-> Put(W.cells, w), log |-> Append(W.log, w)]

\* worksheet.update_cell(r, c, value)
update_cell(W, r, c, v) == update(W, {<<r, c, v>>})

----------------------------------------------------------------------------
(* GoogleSheetsService *)

\* _initialize_dashboard: column A still lacks the employee numbers
NeedsNumbers(a6_value) == a6_value = <<>> \/ a6_value # <<"1">>

\* _initialize_dashboard: the employee numbers 1..70 written to A6:A75
NumbersWrite ==
    {<<FIRST_EMPLOYEE_ROW - 1 + i, 1, Num(100 * i)>> :
        i \in 1..(NUMBERS_LAST_ROW - FIRST_EMPLOYEE_ROW + 1)}

\* _initialize_dashboard: B5 still lacks the header of the name column
NeedsNameHeader(b5_value) == b5_value = <<>> \/ b5_value # NAME_HEADER

\* NameHeaderWrite setting the sentinel C2 along with the header
NameHeaderWrite_WithSentinel ==
    {<<HEADER_ROW, NAME_COL, Text(NAME_HEADER)>>, <<2, FIRST_DATE_COL, Text(TOTAL_TIP)>>}

NameHeaderWrite == {<<HEADER_ROW, NAME_COL, Text(NAME_HEADER)>>}

\* _initialize_dashboard(worksheet), after the employee numbers
_initialize_dashboard_header(W) ==
    IF NeedsNameHeader(Value(Cell(W.cells, HEADER_ROW, NAME_COL)))
    THEN update(W, NameHeaderWrite) ELSE W

\* _initialize_dashboard(worksheet): the employee numbers and the name header
_initialize_dashboard(W) ==
    _initialize_dashboard_header(
        IF NeedsNumbers(Value(Cell(W.cells, FIRST_EMPLOYEE_ROW, 1)))
        THEN update(W, NumbersWrite) ELSE W)

\* get_or_create_month_sheet: the sheet exists but C2 does not hold the sentinel
NeedsDashboard(c2_value) == c2_value = <<>> \/ c2_value # TOTAL_TIP

\* get_or_create_month_sheet adding a fresh worksheet whether or not one exists
get_or_create_month_sheet_AlwaysAdds(book, date) ==
    [title |-> SheetName(date), created |-> TRUE, W |-> _initialize_dashboard(Handle(<<>>))]

\* get_or_create_month_sheet(date) on the spreadsheet `book`
get_or_create_month_sheet(book, date) ==
    IF SheetName(date) \in DOMAIN book
    THEN [title |-> SheetName(date), created |-> FALSE,
          W |-> IF NeedsDashboard(Value(Cell(book[SheetName(date)], 2, 3)))
                THEN _initialize_dashboard(Handle(book[SheetName(date)]))
                ELSE Handle(book[SheetName(date)])]
    ELSE [title |-> SheetName(date), created |-> TRUE,
          W |-> _initialize_dashboard(Handle(<<>>))]

\* FindEmployeeRow comparing without strip(): a padded spelling is another employee
FindEmployeeRow_NoStrip(col_b, employee_name) ==
    LET hits == {idx \in 1..Len(col_b) :
                    idx > HEADER_ROW /\ Lower(col_b[idx]) = Lower(employee_name)}
    IN  IF hits = {} THEN 0 ELSE CHOOSE i \in hits : \A j \in hits : i <= j

\* FindEmployeeRow comparing without lower(): another case is another employee
FindEmployeeRow_CaseSensitive(col_b, employee_name) ==
    LET hits == {idx \in 1..Len(col_b) :
                    idx > HEADER_ROW /\ Strip(col_b[idx]) = Strip(employee_name)}
    IN  IF hits = {} THEN 0 ELSE CHOOSE i \in hits : \A j \in hits : i <= j

\* FindEmployeeRow skipping the first employee row as well
FindEmployeeRow_FromSeventh(col_b, employee_name) ==
    LET hits == {idx \in 1..Len(col_b) :
                    idx > FIRST_EMPLOYEE_ROW
                    /\ Lower(Strip(col_b[idx])) = Strip(Lower(employee_name))}
    IN  IF hits = {} THEN 0 ELSE CHOOSE i \in hits : \A j \in hits : i <= j

\* the index of the employee's row in column B, 0 when there is none
FindEmployeeRow(col_b, employee_name) ==
    LET hits == {idx \in 1..Len(col_b) :
                    idx > HEADER_ROW /\ Lower(Strip(col_b[idx])) = Strip(Lower(employee_name))}
    IN  IF hits = {} THEN 0 ELSE CHOOSE i \in hits : \A j \in hits : i <= j

\* NextEmployeeRow without the + 1: the last occupied row
NextEmployeeRow_LastRow(col_b) ==
    IF Len(col_b) < FIRST_EMPLOYEE_ROW THEN FIRST_EMPLOYEE_ROW ELSE Len(col_b)

\* the row a new employee is appended at
NextEmployeeRow(col_b) ==
    IF Len(col_b) + 1 < FIRST_EMPLOYEE_ROW THEN FIRST_EMPLOYEE_ROW ELSE Len(col_b) + 1

\* EmployeeRowLimit one row further down
EmployeeRowLimit_OffByOne == MAX_EMPLOYEE_ROW + 1

\* the row bound a new employee may not exceed
EmployeeRowLimit == MAX_EMPLOYEE_ROW

\* get_or_create_employee_row(employee_name, worksheet)
get_or_create_employee_row(W, employee_name) ==
    LET col_b == col_values(W.cells, NAME_COL)
        found == FindEmployeeRow(col_b, employee_name)
        next_row == NextEmployeeRow(col_b)
    IN  IF found # 0 THEN [W |-> W, row |-> found, err |-> "none", bound |-> 0]
        ELSE IF next_row > EmployeeRowLimit
        THEN [W |-> W, row |-> 0, err |-> "capacity", bound |-> MAX_EMPLOYEES]
        ELSE [W |-> update_cell(W, next_row, NAME_COL, Text(employee_name)),
              row |-> next_row, err |-> "none", bound |-> 0]

\* FindDateHeader starting its scan past the first date block
FindDateHeader_FromFifth(row5, date_formatted) ==
    LET hits == {idx \in 1..Len(row5) :
                    idx > FIRST_DATE_COL + 1 /\ row5[idx] = date_formatted}
    IN  IF hits = {} THEN 0 ELSE CHOOSE i \in hits : \A j \in hits : i <= j

\* FindDateHeader looking under the hours columns only
FindDateHeader_HoursColumns(row5, date_formatted) ==
    LET hits == {idx \in 1..Len(row5) :
                    idx >= FIRST_DATE_COL /\ idx % 2 = 1 /\ row5[idx] = date_formatted}
    IN  IF hits = {} THEN 0 ELSE CHOOSE i \in hits : \A j \in hits : i <= j

\* FindDateHeader comparing the headers with the date as it was given (YYYY-MM-DD)
FindDateHeader_Iso(row5, date_formatted) ==
    LET date == SubSeq(date_formatted, 7, 10) \o <<"-">> \o SubSeq(date_formatted, 4, 5)
                    \o <<"-">> \o SubSeq(date_formatted, 1, 2)
        hits == {idx \in 1..Len(row5) : idx >= FIRST_DATE_COL /\ row5[idx] = date}
    IN  IF hits = {} THEN 0 ELSE CHOOSE i \in hits : \A j \in hits : i <= j

\* the index of the date's header in row 5, 0 when there is none
FindDateHeader(row5, date_formatted) ==
    LET hits == {idx \in 1..Len(row5) : idx >= FIRST_DATE_COL /\ row5[idx] = date_formatted}
    IN  IF hits = {} THEN 0 ELSE CHOOSE i \in hits : \A j \in hits : i <= j

\* NextDateColumn leaving a column free after the last header
NextDateColumn_SkipOne(row5) ==
    IF Len(row5) + 2 < FIRST_DATE_COL THEN FIRST_DATE_COL ELSE Len(row5) + 2

\* NextDateColumn without the + 1: the block starts on the last header
NextDateColumn_Overlap(row5) ==
    IF Len(row5) < FIRST_DATE_COL THEN FIRST_DATE_COL ELSE Len(row5)

\* the column a new date block starts at
NextDateColumn(row5) ==
    IF Len(row5) + 1 < FIRST_DATE_COL THEN FIRST_DATE_COL ELSE Len(row5) + 1

\* the last row the formulas of a date block cover
FormulaLastRow == FORMULA_LAST_ROW

\* the data writes of a new date block, in the order they are issued
DateColumnWrites(hours_col, date_formatted) ==
    LET date_col == hours_col + 1
        hours_letter == _col_index_to_letter(hours_col)
        date_letter == _col_index_to_letter(date_col)
    IN  << {<<2, hours_col, Text(TOTAL_TIP)>>},
           {<<3, hours_col, Text(TOTAL_HOURS)>>},
           {<<4, hours_col, Text(TIP_PER_HOUR)>>},
           {<<HEADER_ROW, hours_col, Text(HOURS)>>},
           {<<3, date_col, SumFormula(hours_letter, FIRST_EMPLOYEE_ROW, FormulaLastRow)>>},
           {<<4, date_col, QuotFormula(date_letter, 2, 3)>>},
           {<<HEADER_ROW, date_col, Text(date_formatted)>>},
           {<<row, date_col, ProdFormula(hours_letter, row, date_letter, 4)>> :
                row \in FIRST_EMPLOYEE_ROW..FormulaLastRow} >>

RECURSIVE ApplyWrites(_, _)
ApplyWrites(W, ws) == IF ws = <<>> THEN W ELSE ApplyWrites(update(W, Head(ws)), Tail(ws))

\* get_or_create_date_column reporting every pair as created
get_or_create_date_column_ReportsCreated(W, date) ==
    LET date_formatted == DateFormatted(date)
        row5 == row_values(W.cells, HEADER_ROW)
        found == FindDateHeader(row5, date_formatted)
        next_col == NextDateColumn(row5)
    IN  IF found # 0 THEN [W |-> W, hours_col |-> found - 1, created |-> TRUE]
        ELSE [W |-> ApplyWrites(W, DateColumnWrites(next_col, date_formatted)),
              hours_col |-> next_col, created |-> TRUE]

\* get_or_create_date_column writing the block again when the date is found
get_or_create_date_column_Rewriting(W, date) ==
    LET date_formatted == DateFormatted(date)
        row5 == row_values(W.cells, HEADER_ROW)
        found == FindDateHeader(row5, date_formatted)
        next_col == NextDateColumn(row5)
    IN  IF found # 0
        THEN [W |-> ApplyWrites(W, DateColumnWrites(found - 1, date_formatted)),
              hours_col |-> found - 1, created |-> FALSE]
        ELSE [W |-> ApplyWrites(W, DateColumnWrites(next_col, date_formatted)),
              hours_col |-> next_col, created |-> TRUE]

\* get_or_create_date_column(date, worksheet)
get_or_create_date_column(W, date) ==
    LET date_formatted == DateFormatted(date)
        row5 == row_values(W.cells, HEADER_ROW)
        found == FindDateHeader(row5, date_formatted)
        next_col == NextDateColumn(row5)
    IN  IF found # 0 THEN [W |-> W, hours_col |-> found - 1, created |-> FALSE]
        ELSE [W |-> ApplyWrites(W, DateColumnWrites(next_col, date_formatted)),
              hours_col |-> next_col, created |-> TRUE]

\* AlreadySubmitted with the test of the stripped text inverted
AlreadySubmitted_StripInverted(existing_value) ==
    existing_value # <<>> /\ Strip(existing_value) = <<>>

\* the write guard of submit_hours: the target cell already holds something
AlreadySubmitted(existing_value) == existing_value # <<>> /\ Strip(existing_value) # <<>>

\* the coordinates a log of writes touched
Coords(log) == [i \in 1..Len(log) |-> {<<x[1], x[2]>> : x \in log[i]}]

WithSheet_EverySheet(book, title, cells) ==
    [t \in DOMAIN book \cup {title} |-> cells]

WithSheet(book, title, cells) ==
    (title :> cells) @@ book

\* hours_write into the paired column of the date
hours_write_PairedColumn(W, row, col, hours) == update_cell(W, row, col + 1, Num(hours))

\* hours_write that leaves a cell alone that is no longer empty
hours_write_IfEmpty(W, row, col, hours) ==
    IF Cell(W.cells, row, col) = EMPTY THEN update_cell(W, row, col, Num(hours)) ELSE W

\* the write of the hours into the target cell
hours_write(W, row, col, hours) == update_cell(W, row, col, Num(hours))

\* The result of a call: the spreadsheet it leaves, what it returned or raised, and
\* the writes it issued, split by the step that issued them (W0: the handle when the
\* call began to use the worksheet, ms, dc, er: the handles after the month sheet,
\* the date column and the employee row were resolved, W: the handle at the end).
Result(book, ms, dc, er, W, err, employee_count) ==
    [book |-> WithSheet(book, ms.title, W.cells),
     err |-> err, bound |-> er.bound,
     title |-> ms.title, sheet_created |-> ms.created,
     row |-> er.row, hours_col |-> dc.hours_col, col_created |-> dc.created,
     employee_count |-> employee_count,
     log |-> Coords(W.log),
     n_sheet |-> Len(ms.W.log),
     n_col |-> Len(dc.W.log) - Len(ms.W.log),
     n_row |-> Len(er.W.log) - Len(dc.W.log),
     n_cell |-> Len(W.log) - Len(er.W.log)]

\* submit_hours_guarded without the write guard
submit_hours_unguarded(book, ms, dc, er, hours) ==
    IF er.err # "none" THEN Result(book, ms, dc, er, er.W, er.err, 0)
    ELSE Result(book, ms, dc, er, hours_write(er.W, er.row, dc.hours_col, hours), "none", 0)

\* submit_hours, from the write guard on: the row er and the column dc are resolved
submit_hours_guarded(book, ms, dc, er, hours) ==
    IF er.err # "none" THEN Result(book, ms, dc, er, er.W, er.err, 0)
    ELSE IF AlreadySubmitted(Value(Cell(er.W.cells, er.row, dc.hours_col)))
    THEN Result(book, ms, dc, er, er.W, "duplicate", 0)
    ELSE Result(book, ms, dc, er, hours_write(er.W, er.row, dc.hours_col, hours), "none", 0)

\* submit_hours, from the employee row on
submit_hours_in_column(book, ms, dc, employee_name, hours) ==
    submit_hours_guarded(book, ms, dc, get_or_create_employee_row(dc.W, employee_name), hours)

\* submit_hours, from the date column on
submit_hours_in_sheet(book, ms, employee_name, date, hours) ==
    submit_hours_in_column(book, ms, get_or_create_date_column(ms.W, date),
                           employee_name, hours)

\* submit_hours(employee_name, date, hours) on the spreadsheet `book`
submit_hours(book, employee_name, date, hours) ==
    submit_hours_in_sheet(book, get_or_create_month_sheet(book, date),
                          employee_name, date, hours)

\* the employees counted by submit_daily_tips
EmployeeCount(col_b) ==
    Cardinality({idx \in 1..Len(col_b) : idx > HEADER_ROW /\ Strip(col_b[idx]) # <<>>})

NoRow(W) == [W |-> W, row |-> 0, err |-> "none", bound |-> 0]

\* submit_daily_tips, the count of the employees after the write
submit_daily_tips_written(book, ms, dc, W) ==
    Result(book, ms, dc, NoRow(dc.W), W, "none", EmployeeCount(col_values(W.cells, NAME_COL)))

\* submit_daily_tips_in_column leaving alone a total that was already entered
submit_daily_tips_in_column_IfEmpty(book, ms, dc, total_tips) ==
    submit_daily_tips_written(book, ms, dc,
        IF Cell(dc.W.cells, 2, dc.hours_col + 1) = EMPTY
        THEN update_cell(dc.W, 2, dc.hours_col + 1, Num(total_tips))
        ELSE dc.W)

\* submit_daily_tips, from the write of the total on: the column dc is resolved
submit_daily_tips_in_column(book, ms, dc, total_tips) ==
    submit_daily_tips_written(book, ms, dc,
                              update_cell(dc.W, 2, dc.hours_col + 1, Num(total_tips)))

\* submit_daily_tips, from the date column on
submit_daily_tips_in_sheet(book, ms, date, total_tips) ==
    submit_daily_tips_in_column(book, ms, get_or_create_date_column(ms.W, date), total_tips)

\* submit_daily_tips(date, total_tips) on the spreadsheet `book`
submit_daily_tips(book, date, total_tips) ==
    submit_daily_tips_in_sheet(book, get_or_create_month_sheet(book, date), date, total_tips)

----------------------------------------------------------------------------
(* The inputs of the model *)

\* two employees; the second spelling of the first differs in case and padding
EmployeeNames == { <<"A","l">>, <<" ","a","L"," ">>, <<"B","o">> }

\* two dates of one month and one of the next
Dates == {MkDate(2026, 1, 10), MkDate(2026, 1, 11), MkDate(2026, 2, 11)}

HoursValues == {800, 350}
TipValues == {50000, 42050}

\* The January sheet may already hold employees: their rows are the result of
\* their own submit_hours calls for PrefillDate, made before the behaviour starts.
PrefillDate == MkDate(2026, 1, 10)
PrefillHours == CHOOSE h \in HoursValues : \A g \in HoursValues : g <= h
PrefillChoices == {0, 1, MAX_EMPLOYEES - 1}
FillerName(k) == <<"E","m","p">> \o Pad(NatText(k), 2)

\* the key of a submission: the sheet, the name as the row search compares it, the date
Key(employee_name, date) == <<SheetName(date), Strip(Lower(employee_name)), date>>

\* the history after a submit_hours call that returned r
Accept(acc, employee_name, date, hours, r) ==
    IF r.err = "none"
    THEN (Key(employee_name, date) :>
              [name |-> employee_name, hours |-> hours, row |-> r.row, col |-> r.hours_col])
             @@ acc
    ELSE acc

\* the spreadsheet and the history after a filler's call that returned r
PrefillStep(st, employee_name, r) ==
    [book |-> r.book, err |-> r.err,
     accepted |-> Accept(st.accepted, employee_name, PrefillDate, PrefillHours, r)]

\* the spreadsheet and the history after the calls i..k of the fillers, made from st
RECURSIVE PrefillFrom(_, _, _)
PrefillFrom(st, i, k) ==
    IF i > k \/ st.err # "none" THEN st
    ELSE PrefillFrom(PrefillStep(st, FillerName(i),
                                 submit_hours(st.book, FillerName(i), PrefillDate,
                                              PrefillHours)),
                     i + 1, k)

Prefilled(k) == PrefillFrom([book |-> <<>>, err |-> "none", accepted |-> <<>>], 1, k)

NoDate == MkDate(0, 0, 0)
NoCall ==
    [op |-> "none", name |-> <<>>, date |-> NoDate, amount |-> 0, pre_accepted |-> FALSE,
     err |-> "none", bound |-> 0, title |-> <<>>, sheet_created |-> FALSE,
     row |-> 0, hours_col |-> 0, col_created |-> FALSE, employee_count |-> 0,
     log |-> <<>>, n_sheet |-> 0, n_col |-> 0, n_row |-> 0, n_cell |-> 0,
     prior |-> EMPTY]

CallRecord(op, name, date, amount, pre, r) ==
    [op |-> op, name |-> name, date |-> date, amount |-> amount, pre_accepted |-> pre,
     err |-> r.err, bound |-> r.bound, title |-> r.title, sheet_created |-> r.sheet_created,
     row |-> r.row, hours_col |-> r.hours_col, col_created |-> r.col_created,
     employee_count |-> r.employee_count,
     log |-> r.log, n_sheet |-> r.n_sheet, n_col |-> r.n_col, n_row |-> r.n_row,
     n_cell |-> r.n_cell, prior |-> EMPTY]

----------------------------------------------------------------------------
(* Operations run one at a time *)

Init ==
    /\ \E k \in PrefillChoices :
          \E st \in {Prefilled(k)} : sheets = st.book /\ accepted = st.accepted
    /\ last = NoCall
    /\ nops = 0
    /\ procs = <<>>

\* a whole submit_hours call
SubmitHours(employee_name, date, hours) ==
    /\ nops < MaxOps
    /\ \E r \in {submit_hours(sheets, employee_name, date, hours)} :
           /\ sheets' = r.book
           /\ last' = CallRecord("submit_hours", employee_name, date, hours,
                                 Key(employee_name, date) \in DOMAIN accepted, r)
           /\ accepted' = Accept(accepted, employee_name, date, hours, r)
    /\ nops' = nops + 1
    /\ UNCHANGED procs

\* a whole submit_daily_tips call
SubmitDailyTips(date, total_tips) ==
    /\ nops < MaxOps
    /\ \E r \in {submit_daily_tips(sheets, date, total_tips)} :
           /\ sheets' = r.book
           \* prior: what the total-amount cell held when the call was made
           /\ last' = [CallRecord("submit_daily_tips", <<>>, date, total_tips, FALSE, r)
                           EXCEPT !.prior = CellAt(sheets, r.title, 2, r.hours_col + 1)]
    /\ nops' = nops + 1
    /\ UNCHANGED <<accepted, procs>>

Next ==
    \/ \E e \in EmployeeNames, d \in Dates, h \in HoursValues : SubmitHours(e, d, h)
    \/ \E d \in Dates, t \in TipValues : SubmitDailyTips(d, t)

Spec == Init /\ [][Next]_vars

----------------------------------------------------------------------------
(* Submissions interleaved at the granularity of the remote reads and writes.     *)
(* Each in-flight submit_hours call is at one of its remote calls; the cosmetic   *)
(* format and freeze calls change no value and are not steps.                     *)

Pids == {1, 2}

\* the first submission is fixed; the second is for the same or another employee,
\* for the same or another date
ConcNames == { <<" ","a","L"," ">>, <<"B","o">> }
ConcDates == {MkDate(2026, 1, 10), MkDate(2026, 1, 11)}
ConcPrefillChoices == {0, 1}

\* a submit_hours call about to make its first remote call
Proc(employee_name, date, hours) ==
    [pc |-> "lookup_sheet", name |-> employee_name, date |-> date, hours |-> hours,
     title |-> SheetName(date), pending |-> <<>>, hours_col |-> 0, col_created |-> FALSE,
     row |-> 0, row_created |-> FALSE, err |-> "none", unwritten_peers |-> {}]

ConcInit ==
    /\ \E k \in ConcPrefillChoices :
          \E st \in {Prefilled(k)} : sheets = st.book /\ accepted = st.accepted
    /\ \E e \in ConcNames, d \in ConcDates :
          procs = << Proc(<<"A","l">>, MkDate(2026, 1, 11), 800), Proc(e, d, 350) >>
    /\ last = NoCall
    /\ nops = 0

At(p, pc) == procs[p].pc = pc

Goto(p, pc) == procs' = [procs EXCEPT ![p].pc = pc]

Write(p, w) ==
    sheets' = [sheets EXCEPT ![procs[p].title] = update(Handle(@), w).cells]

\* sheet.worksheet(sheet_name)
LookupSheet(p) ==
    /\ At(p, "lookup_sheet")
    /\ Goto(p, IF procs[p].title \in DOMAIN sheets THEN "read_c2" ELSE "add_sheet")
    /\ UNCHANGED <<sheets, last, accepted, nops>>

\* sheet.add_worksheet(title): the store refuses a second sheet of the same title
AddSheet(p) ==
    /\ At(p, "add_sheet")
    /\ IF procs[p].title \in DOMAIN sheets
       THEN /\ procs' = [procs EXCEPT ![p].pc = "done", ![p].err = "remote"]
            /\ UNCHANGED sheets
       ELSE /\ sheets' = (procs[p].title :> <<>>) @@ sheets
            /\ Goto(p, "read_a6")
    /\ UNCHANGED <<last, accepted, nops>>

\* worksheet.cell(2, 3)
ReadC2(p) ==
    /\ At(p, "read_c2")
    /\ Goto(p, IF NeedsDashboard(Value(Cell(sheets[procs[p].title], 2, 3)))
               THEN "read_a6" ELSE "read_row5")
    /\ UNCHANGED <<sheets, last, accepted, nops>>

\* worksheet.cell(6, 1)
ReadA6(p) ==
    /\ At(p, "read_a6")
    /\ Goto(p, IF NeedsNumbers(Value(Cell(sheets[procs[p].title], FIRST_EMPLOYEE_ROW, 1)))
               THEN "write_numbers" ELSE "read_b5")
    /\ UNCHANGED <<sheets, last, accepted, nops>>

\* worksheet.update('A6:A75', employee_numbers)
WriteNumbers(p) ==
    /\ At(p, "write_numbers")
    /\ Write(p, NumbersWrite)
    /\ Goto(p, "read_b5")
    /\ UNCHANGED <<last, accepted, nops>>

\* worksheet.cell(5, 2)
ReadB5(p) ==
    /\ At(p, "read_b5")
    /\ Goto(p, IF NeedsNameHeader(Value(Cell(sheets[procs[p].title], HEADER_ROW, NAME_COL)))
               THEN "write_name_header" ELSE "read_row5")
    /\ UNCHANGED <<sheets, last, accepted, nops>>

\* worksheet.update_cell(5, 2, header)
WriteNameHeader(p) ==
    /\ At(p, "write_name_header")
    /\ Write(p, NameHeaderWrite)
    /\ Goto(p, "read_row5")
    /\ UNCHANGED <<last, accepted, nops>>

\* get_or_create_date_column: worksheet.row_values(5) and the search of the date
ReadRow5(p) ==
    /\ At(p, "read_row5")
    /\ \E row5 \in {row_values(sheets[procs[p].title], HEADER_ROW)} :
       \E found \in {FindDateHeader(row5, DateFormatted(procs[p].date))} :
          procs' = [procs EXCEPT ![p] =
              IF found # 0
              THEN [@ EXCEPT !.pc = "read_col_b", !.hours_col = found - 1]
              ELSE [@ EXCEPT !.pc = "write_block", !.hours_col = NextDateColumn(row5),
                             !.col_created = TRUE,
                             !.pending = DateColumnWrites(NextDateColumn(row5),
                                                          DateFormatted(procs[p].date))]]
    /\ UNCHANGED <<sheets, last, accepted, nops>>

\* get_or_create_date_column: the next write of the new date block
WriteBlock(p) ==
    /\ At(p, "write_block")
    /\ Write(p, Head(procs[p].pending))
    /\ procs' = [procs EXCEPT ![p].pending = Tail(@),
                              ![p].pc = IF Tail(procs[p].pending) = <<>>
                                        THEN "read_col_b" ELSE "write_block"]
    /\ UNCHANGED <<last, accepted, nops>>

\* get_or_create_employee_row: worksheet.col_values(2) and the search of the name
ReadColB(p) ==
    /\ At(p, "read_col_b")
    /\ \E col_b \in {col_values(sheets[procs[p].title], NAME_COL)} :
       \E found \in {FindEmployeeRow(col_b, procs[p].name)} :
          procs' = [procs EXCEPT ![p] =
              IF found # 0 THEN [@ EXCEPT !.pc = "read_cell", !.row = found]
              ELSE IF NextEmployeeRow(col_b) > EmployeeRowLimit
              THEN [@ EXCEPT !.pc = "done", !.err = "capacity"]
              ELSE [@ EXCEPT !.pc = "write_name", !.row = NextEmployeeRow(col_b),
                             !.row_created = TRUE]]
    /\ UNCHANGED <<sheets, last, accepted, nops>>

\* get_or_create_employee_row: worksheet.update_cell(next_row, 2, employee_name)
WriteName(p) ==
    /\ At(p, "write_name")
    /\ Write(p, {<<procs[p].row, NAME_COL, Text(procs[p].name)>>})
    /\ Goto(p, "read_cell")
    /\ UNCHANGED <<last, accepted, nops>>

\* submit_hours: worksheet.cell(employee_row, hours_col) and the write guard
ReadCell(p) ==
    /\ At(p, "read_cell")
    /\ procs' = [procs EXCEPT ![p] =
          IF AlreadySubmitted(Value(Cell(sheets[procs[p].title], procs[p].row,
                                         procs[p].hours_col)))
          THEN [@ EXCEPT !.pc = "done", !.err = "duplicate"]
          ELSE [@ EXCEPT !.pc = "write_hours",
                         !.unwritten_peers = {q \in Pids \ {p} : procs[q].pc # "done"}]]
    /\ UNCHANGED <<sheets, last, accepted, nops>>

\* submit_hours: worksheet.update_cell(employee_row, hours_col, hours), then success
WriteHours(p) ==
    /\ At(p, "write_hours")
    /\ sheets' = [sheets EXCEPT ![procs[p].title] =
                     hours_write(Handle(@), procs[p].row, procs[p].hours_col,
                                 procs[p].hours).cells]
    /\ Goto(p, "done")
    /\ last' = [NoCall EXCEPT !.op = "write_hours", !.name = procs[p].name,
                              !.date = procs[p].date, !.amount = procs[p].hours,
                              !.title = procs[p].title, !.row = procs[p].row,
                              !.hours_col = procs[p].hours_col]
    /\ UNCHANGED <<accepted, nops>>

ConcNext ==
    \E p \in Pids :
        \/ LookupSheet(p) \/ AddSheet(p) \/ ReadC2(p)
        \/ ReadA6(p) \/ WriteNumbers(p) \/ ReadB5(p) \/ WriteNameHeader(p)
        \/ ReadRow5(p) \/ WriteBlock(p)
        \/ ReadColB(p) \/ WriteName(p)
        \/ ReadCell(p) \/ WriteHours(p)

SpecConc == ConcInit /\ [][ConcNext]_vars

----------------------------------------------------------------------------
(* What the claims speak of, read off the spreadsheet itself *)

\* a name as the identity of an employee: trimmed, case-insensitive
NormName(s) == Lower(Strip(s))

\* the rows below the header block that hold a name
NameRows(cells) ==
    {k[1] : k \in {x \in DOMAIN cells : x[2] = NAME_COL /\ x[1] > HEADER_ROW
                                         /\ Strip(Value(cells[x])) # <<>>}}

\* the rows that hold the given employee
RowsOf(cells, employee_name) ==
    {r \in NameRows(cells) : NormName(Value(Cell(cells, r, NAME_COL))) = NormName(employee_name)}

\* the columns of row 5 that hold the given date
HeadersOf(cells, date) ==
    {k[2] : k \in {x \in DOMAIN cells : x[1] = HEADER_ROW /\ x[2] >= FIRST_DATE_COL
                                         /\ Value(cells[x]) = DateFormatted(date)}}

\* the hours columns: those headed HOURS
IsHoursColumn(cells, c) == Cell(cells, HEADER_ROW, c) = Text(HOURS)

\* the hours cells: below the header block, in an hours column
HoursCoords(cells) ==
    {k \in DOMAIN cells : k[1] > HEADER_ROW /\ IsHoursColumn(cells, k[2])}

\* the step is a call
IsCall == nops' = nops + 1

----------------------------------------------------------------------------
(* Claims *)

\* C1: after submit_hours(e, d, h) succeeded, a later submit_hours for the same
\* employee (up to case and surrounding whitespace) and the same date fails with the
\* duplicate-entry error, and the hours cell still holds h.
C1_DuplicateRejected ==
    (last.op = "submit_hours" /\ last.pre_accepted) =>
        /\ last.err = "duplicate"
        /\ LET a == accepted[Key(last.name, last.date)]
           IN  CellAt(sheets, last.title, a.row, a.col) = Num(a.hours)

C1_Witness ==
    /\ last.op = "submit_hours" /\ last.pre_accepted /\ last.err = "duplicate"
    /\ LET a == accepted[Key(last.name, last.date)]
       IN  /\ a.name # last.name
           /\ a.hours # last.amount
           /\ CellAt(sheets, last.title, a.row, a.col) = Num(a.hours)

\* C2: an hours cell that is non-empty keeps its value in every later state, whatever
\* submit_hours or submit_daily_tips call is made, also one that allocates a new
\* employee row or a new date column pair.
C2_HoursCellImmutable ==
    [][\A t \in DOMAIN sheets : \A k \in HoursCoords(sheets[t]) :
          CellAt(sheets', t, k[1], k[2]) = sheets[t][k]]_vars

C2_Witness ==
    /\ last.op = "submit_hours" /\ last.col_created /\ last.n_row = 1 /\ last.err = "none"
    /\ \E k \in DOMAIN accepted :
          /\ k[1] = last.title /\ k # Key(last.name, last.date)
          /\ CellAt(sheets, k[1], accepted[k].row, accepted[k].col) = Num(accepted[k].hours)

\* C4: after a successful submit_hours(e, d, h) the cell at e's row and d's hours
\* column, in the sheet of d's month, holds h, and no other hours cell has changed.
C4_OnlyTargetCellWritten ==
    [][(IsCall /\ last'.op = "submit_hours" /\ last'.err = "none") =>
          LET t == SheetName(last'.date)
              cells == sheets'[t]
          IN  /\ t \in DOMAIN sheets'
              /\ \E r \in RowsOf(cells, last'.name) : \E c \in HeadersOf(cells, last'.date) :
                    /\ RowsOf(cells, last'.name) = {r}
                    /\ HeadersOf(cells, last'.date) = {c}
                    /\ IsHoursColumn(cells, c - 1)
                    /\ Cell(cells, r, c - 1) = Num(last'.amount)
                    /\ \A t2 \in DOMAIN sheets' : \A k \in HoursCoords(sheets'[t2]) :
                          <<t2, k>> # <<t, <<r, c - 1>>>> =>
                              CellAt(sheets, t2, k[1], k[2]) = sheets'[t2][k]
                    /\ \A t2 \in DOMAIN sheets : \A k \in HoursCoords(sheets[t2]) :
                          <<t2, k>> # <<t, <<r, c - 1>>>> =>
                              CellAt(sheets', t2, k[1], k[2]) = sheets[t2][k]]_vars

C4_Witness ==
    /\ last.op = "submit_hours" /\ last.err = "none" /\ nops >= 2
    /\ CellAt(sheets, SheetName(last.date), last.row, last.hours_col) = Num(last.amount)
    /\ \E k \in DOMAIN accepted :
          k # Key(last.name, last.date) /\ accepted[k].hours # last.amount

C7_NamesUnique ==
    \A t \in DOMAIN sheets :
        Cardinality({NormName(Value(Cell(sheets[t], r, NAME_COL))) : r \in NameRows(sheets[t])})
            = Cardinality(NameRows(sheets[t]))

C7_Witness ==
    /\ last.op = "submit_hours" /\ last.n_row = 0 /\ last.err = "none"
    /\ Value(CellAt(sheets, last.title, last.row, NAME_COL)) # last.name
    /\ Cardinality(NameRows(sheets[last.title])) = 2

C9_Capacity ==
    /\ \A t \in DOMAIN sheets : Cardinality(NameRows(sheets[t])) <= MAX_EMPLOYEES
    /\ (last.op = "submit_hours" /\ RowsOf(sheets[last.title], last.name) = {}) =>
           /\ last.err = "capacity"
           /\ Cardinality(NameRows(sheets[last.title])) = MAX_EMPLOYEES
    /\ last.err = "capacity" =>
           /\ last.bound = 70
           /\ last.n_row = 0 /\ last.n_cell = 0
           /\ RowsOf(sheets[last.title], last.name) = {}

C9_Witness ==
    /\ last.op = "submit_hours" /\ last.err = "capacity" /\ last.bound = 70
    /\ Cardinality(NameRows(sheets[last.title])) = 70

\* C10: every row get_or_create_employee_row allocates lies in the row range of each
\* date's total-hours SUM formula and has a payout formula in each date's paired column.
C10_AllocatedRowInFormulas ==
    (last.op = "submit_hours" /\ last.n_row = 1) =>
        LET cells == sheets[last.title]
        IN  \A d \in Dates : \A c \in HeadersOf(cells, d) :
               LET total == Cell(cells, 3, c)
               IN  /\ DOMAIN total = {"sum"}
                   /\ total.sum.col = _col_index_to_letter(c - 1)
                   /\ total.sum.first <= last.row /\ last.row <= total.sum.last
                   /\ Cell(cells, last.row, c)
                          = ProdFormula(_col_index_to_letter(c - 1), last.row,
                                        _col_index_to_letter(c), 4)

\* the two submissions are for the same employee and date
SameTarget(p, q) ==
    /\ NormName(procs[p].name) = NormName(procs[q].name)
    /\ procs[p].date = procs[q].date

Succeeded(p) == procs[p].pc = "done" /\ procs[p].err = "none"

\* C3: two interleaved submit_hours calls for the same (employee, date) cell can both
\* pass the empty-cell check before either writes.  Whenever both return success for
\* one cell, each passed the check before the other wrote, and the cell holds only the
\* value written last: the other update is lost.
C3_LostUpdate ==
    \A p \in Pids : \A q \in Pids \ {p} :
        (/\ SameTarget(p, q) /\ Succeeded(p) /\ Succeeded(q)
         /\ procs[p].row = procs[q].row /\ procs[p].hours_col = procs[q].hours_col) =>
            /\ procs[p].unwritten_peers = {q} /\ procs[q].unwritten_peers = {p}
            /\ last.op = "write_hours"
            /\ CellAt(sheets, procs[p].title, procs[p].row, procs[p].hours_col)
                   = Num(last.amount)
            /\ \E w \in {p, q} :
                  CellAt(sheets, procs[p].title, procs[p].row, procs[p].hours_col)
                      # Num(procs[w].hours)

C3_Witness ==
    /\ SameTarget(1, 2) /\ Succeeded(1) /\ Succeeded(2)
    /\ procs[1].unwritten_peers = {2} /\ procs[2].unwritten_peers = {1}
    /\ procs[1].row = procs[2].row /\ procs[1].hours_col = procs[2].hours_col
    /\ procs[1].hours # procs[2].hours
    /\ CellAt(sheets, procs[1].title, procs[1].row, procs[1].hours_col) = Num(procs[2].hours)

----------------------------------------------------------------------------
(* The values the spreadsheet computes for the formulas of a date block *)

\* the 1-based index of a column given by its letters
ColumnOf(letter) == CHOOSE c \in 1..SHEET_COLS : _col_index_to_letter(c) = letter

\* the fault a division by zero evaluates to
DIV0 == [fault |-> <<"#","D","I","V","/","0","!">>]

\* a cell as a term of SUM: its number, 0 for an empty or a text cell
Operand(cells, r, c) == IF IsNum(Cell(cells, r, c)) THEN Cell(cells, r, c).num ELSE 0

RECURSIVE SumCells(_, _, _, _)
SumCells(cells, c, first, lst) ==
    IF first > lst THEN 0 ELSE Operand(cells, first, c) + SumCells(cells, c, first + 1, lst)

\* the value of =SUM({col}{first}:{col}{last})
EvalSum(cells, f) == SumCells(cells, ColumnOf(f.col), f.first, f.last)

\* a cell as an operand of a division: its number, the value of its SUM, 0 when empty
EvalOperand(cells, r, c) ==
    IF DOMAIN Cell(cells, r, c) = {"sum"} THEN EvalSum(cells, Cell(cells, r, c).sum)
    ELSE Operand(cells, r, c)

\* the value of ={col}{nrow}/{col}{drow}, in hundredths, or the division fault
EvalQuot(cells, f) ==
    IF EvalOperand(cells, f.drow, ColumnOf(f.col)) = 0 THEN DIV0
    ELSE Num((100 * EvalOperand(cells, f.nrow, ColumnOf(f.col)))
                 \div EvalOperand(cells, f.drow, ColumnOf(f.col)))

\* the cells that hold a rate formula
RateCoords(cells) == {k \in DOMAIN cells : DOMAIN cells[k] = {"quot"}}

\* C11: the rate formula emitted for a date evaluates to 0, not to a division fault,
\* whenever the date's total hours is 0, as for a date block that a tip submission
\* allocated before any hours were submitted.
C11_RateZeroOnNoHours ==
    \A t \in DOMAIN sheets : \A k \in RateCoords(sheets[t]) :
        EvalOperand(sheets[t], sheets[t][k].quot.drow, k[2]) = 0 =>
            EvalQuot(sheets[t], sheets[t][k].quot) = Num(0)

\* the cells that hold a formula of a date block: total hours, rate or payout
FormulaCoords(cells) ==
    {k \in DOMAIN cells : DOMAIN cells[k] \in {{"sum"}, {"quot"}, {"prod"}}}

\* C12: once a date block exists, no submit_hours call, for whatever employee, writes to
\* its total-hours, rate or payout formula cells: the call leaves them as they are and
\* addresses none of them in any write.
C12_FormulasWrittenOnce ==
    [][(IsCall /\ last'.op = "submit_hours") =>
          \A t \in DOMAIN sheets : \A k \in FormulaCoords(sheets[t]) :
              /\ CellAt(sheets', t, k[1], k[2]) = sheets[t][k]
              /\ t = last'.title => \A i \in 1..Len(last'.log) : k \notin last'.log[i]]_vars

C12_Witness ==
    /\ last.op = "submit_hours" /\ last.err = "none" /\ ~last.col_created /\ last.n_cell = 1
    /\ DOMAIN Cell(sheets[last.title], 3, last.hours_col + 1) = {"sum"}
    /\ DOMAIN Cell(sheets[last.title], 4, last.hours_col + 1) = {"quot"}
    /\ DOMAIN Cell(sheets[last.title], last.row, last.hours_col + 1) = {"prod"}
    /\ Cell(sheets[last.title], last.row, last.hours_col) = Num(last.amount)

\* C13: submit_daily_tips for a date whose column pair exists succeeds, whether or not
\* the total-amount cell already held a value, and issues one write, to row 2 of the
\* date's paired column: afterwards that cell holds the submitted total and every
\* other cell of every sheet (formulas, hours, headers) is as it was.
C13_TipWritesOneCell ==
    [][(IsCall /\ last'.op = "submit_daily_tips") =>
          LET t == SheetName(last'.date)
              before == IF t \in DOMAIN sheets THEN HeadersOf(sheets[t], last'.date) ELSE {}
          IN  before # {} =>
                 \E c \in before :
                    /\ before = {c}
                    /\ last'.err = "none"
                    /\ last'.log = << {<<2, c>>} >>
                    /\ sheets' = [sheets EXCEPT ![t] = (<<2, c>> :> Num(last'.amount)) @@ @]]_vars

C13_Witness ==
    /\ last.op = "submit_daily_tips" /\ last.err = "none" /\ ~last.col_created
    /\ IsNum(last.prior) /\ last.prior # Num(last.amount)
    /\ Cell(sheets[last.title], 2, last.hours_col + 1) = Num(last.amount)
    /\ DOMAIN Cell(sheets[last.title], 3, last.hours_col + 1) = {"sum"}
    /\ HoursCoords(sheets[last.title]) # {}

\* C14: a date's column pair is created by the first call that references the date,
\* be it submit_hours or submit_daily_tips; a call for a date that has its pair finds
\* it (was_created = False) and allocates nothing; and no call removes a pair.
C14_PairCreatedByFirstReference ==
    [][IsCall =>
          LET t == SheetName(last'.date)
              before == IF t \in DOMAIN sheets THEN HeadersOf(sheets[t], last'.date) ELSE {}
          IN  /\ last'.col_created <=> before = {}
              /\ before # {} => last'.n_col = 0
              /\ HeadersOf(sheets'[t], last'.date) = {last'.hours_col + 1}
              /\ \A d \in Dates :
                    SheetName(d) \in DOMAIN sheets =>
                        \A c \in HeadersOf(sheets[SheetName(d)], d) :
                            /\ c \in HeadersOf(sheets'[SheetName(d)], d)
                            /\ IsHoursColumn(sheets'[SheetName(d)], c - 1)]_vars

\* the manager's call came first and created the pair; the employee's call found it
C14_Witness ==
    /\ nops = 2 /\ last.op = "submit_hours" /\ last.err = "none"
    /\ ~last.col_created /\ ~last.sheet_created /\ last.n_col = 0
    /\ DOMAIN accepted = {Key(last.name, last.date)}
    /\ HeadersOf(sheets[last.title], last.date) = {last.hours_col + 1}
    /\ IsNum(Cell(sheets[last.title], 2, last.hours_col + 1))

----------------------------------------------------------------------------
(* is_month_closed, applied to a date and the moment of the call *)

\* a moment: a calendar day and the time of day, in microseconds since midnight
Moment(y, m, d, us) == [y |-> y, m |-> m, d |-> d, us |-> us]

\* datetime comparison a > b
After(a, b) ==
    \/ a.y > b.y
    \/ a.y = b.y /\ a.m > b.m
    \/ a.y = b.y /\ a.m = b.m /\ a.d > b.d
    \/ a.y = b.y /\ a.m = b.m /\ a.d = b.d /\ a.us > b.us

cutoff_date_SameMonth(date) == Moment(date.y, date.m, 2, 0)

\* the 2nd of the month after the date's month, at midnight
cutoff_date(date) ==
    IF date.m = 12 THEN Moment(date.y + 1, 1, 2, 0) ELSE Moment(date.y, date.m + 1, 2, 0)

\* is_month_closed(date), called at the moment today
is_month_closed(date, today) == After(today, cutoff_date(date))

ClockDates == {MkDate(2026, 1, 15), MkDate(2026, 2, 28), MkDate(2025, 12, 31), MkDate(2026, 12, 1)}
\* midnight, the first microsecond after it, one second after it
Moments == {Moment(y, m, d, us) : y \in {2026, 2027}, m \in {1, 2, 3, 12}, d \in {1, 2, 3},
                                  us \in {0, 1, 1000000}}

InitClock ==
    /\ sheets = <<>> /\ accepted = <<>> /\ nops = 0 /\ procs = <<>>
    /\ last = NoCall

\* a call of is_month_closed(date) at the moment today; the calls that follow it are
\* for the same date, at later moments.  was_closed: an earlier call reported closed.
IsMonthClosed(date, today) ==
    /\ last.op = "none" \/ (last.date = date /\ After(today, last.today))
    /\ last' = [op |-> "is_month_closed", date |-> date, today |-> today,
                closed |-> is_month_closed(date, today),
                was_closed |-> last.op # "none" /\ (last.was_closed \/ last.closed)]
    /\ UNCHANGED <<sheets, accepted, nops, procs>>

NextClock == \E date \in ClockDates, today \in Moments : IsMonthClosed(date, today)

SpecClock == InitClock /\ [][NextClock]_vars

\* the calendar day of a moment, its time of day dropped
Day(t) == Moment(t.y, t.m, t.d, 0)

\* C15: is_month_closed reports closed exactly when the calendar day of the call is
\* strictly after the 2nd of the month following the date's month (2 January of the
\* next year for a December date), whatever the time of day: open all through the
\* cutoff day, closed from the day after.
C15_ClosedAfterCutoffDay ==
    last.op = "is_month_closed" =>
        (last.closed <=> After(Day(last.today), cutoff_date(last.date)))

----------------------------------------------------------------------------
(* calculate_hours, applied to two wall-clock times "HH:MM" *)

\* strftime-like text of a wall-clock time
TimeText(h, m) == Pad(NatText(h), 2) \o <<":">> \o Pad(NatText(m), 2)

DigitValue(c) == (CHOOSE i \in 1..10 : DIGITS[i] = c) - 1

\* int() of a text of decimal digits
RECURSIVE IntOf(_)
IntOf(s) ==
    IF s = <<>> THEN 0 ELSE 10 * IntOf(SubSeq(s, 1, Len(s) - 1)) + DigitValue(s[Len(s)])

\* map(int, t.split(':')): the hour and the minute of the text
ColonAt(t) == CHOOSE i \in 1..Len(t) : t[i] = ":"
HourOf(t) == IntOf(SubSeq(t, 1, ColonAt(t) - 1))
MinuteOf(t) == IntOf(SubSeq(t, ColonAt(t) + 1, Len(t)))

\* datetime(2000, 1, 1, hour, minute), as minutes since the midnight before it
MinuteOfDay(t) == 60 * HourOf(t) + MinuteOf(t)

RoundedHours_Truncated(minutes) == (10 * minutes) \div 6

\* round(minutes / 60, 2) in hundredths of an hour.  100 * minutes / 60 = 5 * minutes / 3
\* is never half-way between two integers, so every rounding rule gives the nearest one.
RoundedHours(minutes) == (10 * minutes + 3) \div 6

\* calculate_hours wrapping past midnight only when end is before start
calculate_hours_StrictWrap(start_time, end_time) ==
    RoundedHours(IF MinuteOfDay(end_time) < MinuteOfDay(start_time)
                 THEN MinuteOfDay(end_time) + 24 * 60 - MinuteOfDay(start_time)
                 ELSE MinuteOfDay(end_time) - MinuteOfDay(start_time))

\* calculate_hours(start_time, end_time), in hundredths of an hour
calculate_hours(start_time, end_time) ==
    RoundedHours(IF MinuteOfDay(end_time) <= MinuteOfDay(start_time)
                 THEN MinuteOfDay(end_time) + 24 * 60 - MinuteOfDay(start_time)
                 ELSE MinuteOfDay(end_time) - MinuteOfDay(start_time))

ClockHours == {0, 2, 9, 17, 23}
ClockMinutes == {0, 1, 30, 59}

InitHours ==
    /\ sheets = <<>> /\ accepted = <<>> /\ nops = 0 /\ procs = <<>>
    /\ last = NoCall

CalculateHours(sh, sm, eh, em) ==
    /\ last.op = "none"
    /\ last' = [op |-> "calculate_hours", sh |-> sh, sm |-> sm, eh |-> eh, em |-> em,
                hours |-> calculate_hours(TimeText(sh, sm), TimeText(eh, em))]
    /\ UNCHANGED <<sheets, accepted, nops, procs>>

NextHours ==
    \E sh \in ClockHours, eh \in ClockHours, sm \in ClockMinutes, em \in ClockMinutes :
        CalculateHours(sh, sm, eh, em)

SpecHours == InitHours /\ [][NextHours]_vars

\* the minutes from start to end, a full day added when end is not after start
Elapsed(sh, sm, eh, em) ==
    IF 60 * eh + em <= 60 * sh + sm
    THEN 60 * eh + em + 24 * 60 - (60 * sh + sm)
    ELSE 60 * eh + em - (60 * sh + sm)

\* C17: for valid wall-clock times calculate_hours returns the elapsed time in hours
\* rounded to 2 decimals, 24 hours added when end <= start: the result is the hundredth
\* nearest to elapsed/60, lies between 0 and 24, and is 24.00 when start = end
\* (09:00-17:00 gives 8.00, 23:00-02:00 gives 3.00, 09:00-09:01 gives 0.02).
C17_ElapsedHours ==
    last.op = "calculate_hours" =>
        LET minutes == Elapsed(last.sh, last.sm, last.eh, last.em)
            diff == 60 * last.hours - 100 * minutes
        IN  /\ -30 <= diff /\ diff <= 30
            /\ 0 <= last.hours /\ last.hours <= 2400
            /\ (last.sh = last.eh /\ last.sm = last.em) => last.hours = 2400
            /\ <<last.sh, last.sm, last.eh, last.em>> = <<9, 0, 17, 0>> => last.hours = 800
            /\ <<last.sh, last.sm, last.eh, last.em>> = <<23, 0, 2, 0>> => last.hours = 300
            /\ <<last.sh, last.sm, last.eh, last.em>> = <<9, 0, 9, 1>> => last.hours = 2

C17_Witness ==
    /\ last.op = "calculate_hours"
    /\ last.sh = last.eh /\ last.sm = last.em /\ last.sm = 59
    /\ last.hours = 2400

----------------------------------------------------------------------------
(* The endpoints /submit-hours and /manager/submit-daily-tip *)

\* get_employee_settings(): the names of the records of the Settings tab
Roster == { <<"A","l">>, <<"B","o">> }

\* the roster test of /submit-hours
employee_exists(employees, employee_name) ==
    \E emp \in employees : Lower(emp) = Lower(employee_name)

\* the result of a request that made no call to the spreadsheet
NoResult(book) ==
    [book |-> book, err |-> "rejected", bound |-> 0, title |-> <<>>,
     sheet_created |-> FALSE, row |-> 0, hours_col |-> 0, col_created |-> FALSE,
     employee_count |-> 0, log |-> <<>>, n_sheet |-> 0, n_col |-> 0, n_row |-> 0,
     n_cell |-> 0]

\* the response: its HTTP status, the hours computed, the result of the service call
Response(status, hours, r) == [status |-> status, hours |-> hours, r |-> r]

\* 200 for a service call that returned, 500 for one that raised
Served(hours, r) == Response(IF r.err = "none" THEN 200 ELSE 500, hours, r)

\* /submit-hours making the checks after the submission
api_submit_hours_SubmitFirst(book, employees, employee_name, date, start_time, end_time, today) ==
    IF is_month_closed(date, today) THEN Response(400, 0, NoResult(book))
    ELSE IF ~employee_exists(employees, employee_name)
    THEN Response(404, 0, submit_hours(book, employee_name, date,
                                       calculate_hours(start_time, end_time)))
    ELSE Served(calculate_hours(start_time, end_time),
                submit_hours(book, employee_name, date,
                             calculate_hours(start_time, end_time)))

\* POST /submit-hours, received at the moment today
api_submit_hours(book, employees, employee_name, date, start_time, end_time, today) ==
    IF is_month_closed(date, today) THEN Response(400, 0, NoResult(book))
    ELSE IF ~employee_exists(employees, employee_name) THEN Response(404, 0, NoResult(book))
    ELSE Served(calculate_hours(start_time, end_time),
                submit_hours(book, employee_name, date,
                             calculate_hours(start_time, end_time)))

\* POST /manager/submit-daily-tip, received at the moment today
api_submit_daily_tip(book, date, total_tips, today) ==
    IF is_month_closed(date, today) THEN Response(400, 0, NoResult(book))
    ELSE Served(0, submit_daily_tips(book, date, total_tips))

\* a name of the roster in another case, and a name that is not on the roster
ApiNames == { <<"a","L">>, <<"Z","e","d">> }
ApiDates == {MkDate(2026, 1, 10), MkDate(2026, 2, 11)}
\* the moments of the requests: January and February open; January closed; both closed
ApiMoments == {Moment(2026, 2, 2, 0), Moment(2026, 2, 2, 1), Moment(2026, 3, 5, 0)}
\* start and end of the shifts, as <<hour, minute, hour, minute>>

\* the record of a request: that of the service call, with the status and the moment
ApiRecord(op, name, date, amount, pre, today, resp) ==
    [status |-> resp.status, today |-> today]
        @@ CallRecord(op, name, date, amount, pre, resp.r)

InitApi ==
    /\ \E k \in {0, 1} :
          \E st \in {Prefilled(k)} : sheets = st.book /\ accepted = st.accepted
    /\ last = NoCall
    /\ nops = 0
    /\ procs = <<>>

ApiSubmitHours(employee_name, date, shift, today) ==
    /\ nops < MaxOps
    /\ \E resp \in {api_submit_hours(sheets, Roster, employee_name, date,
                                     TimeText(shift[1], shift[2]),
                                     TimeText(shift[3], shift[4]), today)} :
           /\ sheets' = resp.r.book
           /\ last' = ApiRecord("api_submit_hours", employee_name, date, resp.hours,
                                Key(employee_name, date) \in DOMAIN accepted, today, resp)
           /\ accepted' = Accept(accepted, employee_name, date, resp.hours, resp.r)
    /\ nops' = nops + 1
    /\ UNCHANGED procs

ApiSubmitDailyTip(date, total_tips, today) ==
    /\ nops < MaxOps
    /\ \E resp \in {api_submit_daily_tip(sheets, date, total_tips, today)} :
           /\ sheets' = resp.r.book
           /\ last' = ApiRecord("api_submit_daily_tip", <<>>, date, total_tips, FALSE,
                                today, resp)
    /\ nops' = nops + 1
    /\ UNCHANGED <<accepted, procs>>

NextApi ==
    \/ \E e \in ApiNames, d \in ApiDates, shift \in { <<9, 0, 17, 0>>, <<9, 0, 9, 1>> },
          today \in ApiMoments :
          ApiSubmitHours(e, d, shift, today)
    \/ \E d \in ApiDates, t \in TipValues, today \in ApiMoments :
          ApiSubmitDailyTip(d, t, today)

SpecApi == InitApi /\ [][NextApi]_vars

\* C16: a request rejected by a check of the endpoint writes nothing: for a date whose
\* month is closed both endpoints answer 400, and /submit-hours for an employee who is
\* not on the roster answers 404, each before a sheet, a row or a column is resolved or
\* created: no call reaches the spreadsheet and the spreadsheet is as it was.
C16_RejectedWritesNothing ==
    [][IsCall =>
          /\ is_month_closed(last'.date, last'.today) => last'.status = 400
          /\ (/\ last'.op = "api_submit_hours"
              /\ ~is_month_closed(last'.date, last'.today)
              /\ \A emp \in Roster : Lower(emp) # Lower(last'.name)) => last'.status = 404
          /\ last'.status \in {400, 404} =>
                /\ sheets' = sheets
                /\ last'.log = <<>>
                /\ last'.n_sheet + last'.n_col + last'.n_row + last'.n_cell = 0
                /\ last'.title = <<>>]_vars

C16_Witness ==
    /\ nops = 2 /\ last.op = "api_submit_hours" /\ last.status = 404
    /\ ~is_month_closed(last.date, last.today)
    /\ last.log = <<>>
    /\ SheetName(last.date) \notin DOMAIN sheets
    /\ DOMAIN sheets # {}

----------------------------------------------------------------------------
(* Allocation by interleaved submissions *)

\* the submission has written its new date block, or its name, and has moved on
BlockWritten(p) == procs[p].col_created /\ procs[p].pc \notin {"write_block"}
NameWritten(p) == procs[p].row_created /\ procs[p].pc \notin {"write_name"}

\* C18: two interleaved submissions that both allocate the column pair of one new date
\* can leave the sheet with two header cells for the date.  Whenever a sheet holds more
\* than one header of a date, both submissions are for that date, both allocated a
\* pair, and the headers are those of the two pairs, one column apart.
C18_DuplicatePairsByRace ==
    \A t \in DOMAIN sheets : \A d \in ConcDates :
        Cardinality(HeadersOf(sheets[t], d)) >= 2 =>
            /\ procs[1].date = d /\ procs[2].date = d
            /\ procs[1].col_created /\ procs[2].col_created
            /\ HeadersOf(sheets[t], d) = {procs[1].hours_col + 1, procs[2].hours_col + 1}
            /\ procs[1].hours_col - procs[2].hours_col \in {-1, 1}

C18_Witness ==
    /\ procs[1].pc = "done" /\ procs[2].pc = "done"
    /\ procs[1].date = procs[2].date
    /\ BlockWritten(1) /\ BlockWritten(2)
    /\ Cardinality(HeadersOf(sheets[procs[1].title], procs[1].date)) = 2

\* the two submissions are for one employee, in one month sheet
SameEmployee(p, q) ==
    NormName(procs[p].name) = NormName(procs[q].name) /\ procs[p].title = procs[q].title

----------------------------------------------------------------------------
(* Calls in which a cosmetic call (worksheet.format, worksheet.freeze) raises.  *)
(* No caller catches the exception short of the endpoint, so the call ends at   *)
(* the cosmetic call that raised: what was written before it stays written.    *)
(* A call is [write |-> cells] or [cosmetic |-> what].                          *)

\* the remote calls _initialize_dashboard makes on a worksheet, after its reads
InitializeDashboardCalls(cells) ==
    (IF NeedsNumbers(Value(Cell(cells, FIRST_EMPLOYEE_ROW, 1)))
     THEN << [write |-> NumbersWrite] >> ELSE <<>>)
    \o (IF NeedsNameHeader(Value(Cell(cells, HEADER_ROW, NAME_COL)))
        THEN << [write |-> NameHeaderWrite], [cosmetic |-> "format A5:B5"] >> ELSE <<>>)
    \o << [cosmetic |-> "freeze"] >>

\* the remote calls get_or_create_month_sheet makes once it has the worksheet
MonthSheetCalls(book, date) ==
    IF SheetName(date) \in DOMAIN book
    THEN IF NeedsDashboard(Value(Cell(book[SheetName(date)], 2, 3)))
         THEN InitializeDashboardCalls(book[SheetName(date)]) ELSE <<>>
    ELSE InitializeDashboardCalls(<<>>)

\* the remote calls get_or_create_date_column makes for a new block, in order
DateColumnCalls(hours_col, date_formatted) ==
    [i \in 1..7 |-> [write |-> DateColumnWrites(hours_col, date_formatted)[i]]]
    \o << [cosmetic |-> "format header block"], [cosmetic |-> "format total tip label"],
          [cosmetic |-> "format total hours label"],
          [cosmetic |-> "format tip per hour label"],
          [cosmetic |-> "format total tip"], [cosmetic |-> "format hours"] >>
    \o << [write |-> DateColumnWrites(hours_col, date_formatted)[8]] >>
    \o << [cosmetic |-> "format payouts"], [cosmetic |-> "format border"] >>

\* the calls made in order through the handle W, up to the cosmetic call that raises
RECURSIVE RunCalls(_, _, _)
RunCalls(W, calls, failing) ==
    IF calls = <<>> THEN [W |-> W, err |-> "none"]
    ELSE IF DOMAIN Head(calls) = {"cosmetic"}
    THEN IF Head(calls).cosmetic = failing THEN [W |-> W, err |-> "format"]
         ELSE RunCalls(W, Tail(calls), failing)
    ELSE RunCalls(update(W, Head(calls).write), Tail(calls), failing)

\* get_or_create_month_sheet(date) when the cosmetic call `failing` raises
get_or_create_month_sheet_failing(book, date, failing) ==
    [title |-> SheetName(date), created |-> SheetName(date) \notin DOMAIN book]
        @@ RunCalls(Handle(IF SheetName(date) \in DOMAIN book
                           THEN book[SheetName(date)] ELSE <<>>),
                    MonthSheetCalls(book, date), failing)

\* get_or_create_date_column(date, worksheet) when the cosmetic call `failing` raises
get_or_create_date_column_failing(W, date, failing) ==
    IF FindDateHeader(row_values(W.cells, HEADER_ROW), DateFormatted(date)) # 0
    THEN [W |-> W, created |-> FALSE, err |-> "none",
          hours_col |-> FindDateHeader(row_values(W.cells, HEADER_ROW),
                                       DateFormatted(date)) - 1]
    ELSE [hours_col |-> NextDateColumn(row_values(W.cells, HEADER_ROW)), created |-> TRUE]
             @@ RunCalls(W, DateColumnCalls(NextDateColumn(row_values(W.cells, HEADER_ROW)),
                                            DateFormatted(date)), failing)

\* submit_hours when the cosmetic call `failing` raises, from the employee row on
submit_hours_failing_in_column(book, ms, dc, employee_name, hours) ==
    IF dc.err # "none" THEN Result(book, ms, dc, NoRow(dc.W), dc.W, dc.err, 0)
    ELSE submit_hours_in_column(book, ms, dc, employee_name, hours)

\* submit_hours when the cosmetic call `failing` raises, from the date column on
submit_hours_failing_in_sheet(book, ms, employee_name, date, hours, failing) ==
    IF ms.err # "none"
    THEN Result(book, ms, [W |-> ms.W, hours_col |-> 0, created |-> FALSE],
                NoRow(ms.W), ms.W, ms.err, 0)
    ELSE submit_hours_failing_in_column(
             book, ms, get_or_create_date_column_failing(ms.W, date, failing),
             employee_name, hours)

\* submit_hours(employee_name, date, hours) when the cosmetic call `failing` raises
submit_hours_failing(book, employee_name, date, hours, failing) ==
    submit_hours_failing_in_sheet(
        book, get_or_create_month_sheet_failing(book, date, failing),
        employee_name, date, hours, failing)

submit_daily_tips_failing_in_column(book, ms, dc, total_tips) ==
    IF dc.err # "none" THEN Result(book, ms, dc, NoRow(dc.W), dc.W, dc.err, 0)
    ELSE submit_daily_tips_in_column(book, ms, dc, total_tips)

submit_daily_tips_failing_in_sheet(book, ms, date, total_tips, failing) ==
    IF ms.err # "none"
    THEN Result(book, ms, [W |-> ms.W, hours_col |-> 0, created |-> FALSE],
                NoRow(ms.W), ms.W, ms.err, 0)
    ELSE submit_daily_tips_failing_in_column(
             book, ms, get_or_create_date_column_failing(ms.W, date, failing), total_tips)

\* submit_daily_tips(date, total_tips) when the cosmetic call `failing` raises
submit_daily_tips_failing(book, date, total_tips, failing) ==
    submit_daily_tips_failing_in_sheet(
        book, get_or_create_month_sheet_failing(book, date, failing),
        date, total_tips, failing)

\* the cosmetic call that raises, if the call gets to it; "none": no call raises
FailingCalls == {"none", "format A5:B5", "freeze", "format header block", "format border"}

InitFaults ==
    /\ \E k \in ConcPrefillChoices :
          \E st \in {Prefilled(k)} : sheets = st.book /\ accepted = st.accepted
    /\ last = NoCall
    /\ nops = 0
    /\ procs = <<>>

\* a submit_hours call; its record names the cosmetic call that raised in it
SubmitHoursFailing(employee_name, date, hours, failing) ==
    /\ nops < MaxOps
    /\ \E r \in {submit_hours_failing(sheets, employee_name, date, hours, failing)} :
           /\ sheets' = r.book
           /\ last' = [failed_call |-> IF r.err = "format" THEN failing ELSE "none"]
                          @@ CallRecord("submit_hours", employee_name, date, hours,
                                        Key(employee_name, date) \in DOMAIN accepted, r)
           /\ accepted' = Accept(accepted, employee_name, date, hours, r)
    /\ nops' = nops + 1
    /\ UNCHANGED procs

\* a submit_daily_tips call; its record names the cosmetic call that raised in it
SubmitDailyTipsFailing(date, total_tips, failing) ==
    /\ nops < MaxOps
    /\ \E r \in {submit_daily_tips_failing(sheets, date, total_tips, failing)} :
           /\ sheets' = r.book
           /\ last' = [failed_call |-> IF r.err = "format" THEN failing ELSE "none"]
                          @@ CallRecord("submit_daily_tips", <<>>, date, total_tips,
                                        FALSE, r)
    /\ nops' = nops + 1
    /\ UNCHANGED <<accepted, procs>>

NextFaults ==
    \/ \E e \in ConcNames, d \in ConcDates, h \in HoursValues, f \in FailingCalls :
          SubmitHoursFailing(e, d, h, f)
    \/ \E d \in ConcDates, t \in TipValues, f \in FailingCalls :
          SubmitDailyTipsFailing(d, t, f)

SpecFaults == InitFaults /\ [][NextFaults]_vars

\* C20: a cosmetic call that fails during sheet initialization or date-column
\* allocation does not fail the submission: the call does not end with that failure,
\* the date has its header with the total-hours, rate and payout formulas under it,
\* and the submitted total is written (or the hours, unless the call was refused for
\* another reason).
C20_CosmeticFailureHarmless ==
    (last.op # "none" /\ last.failed_call # "none") =>
        /\ last.err # "format"
        /\ SheetName(last.date) \in DOMAIN sheets
        /\ \E c \in HeadersOf(sheets[SheetName(last.date)], last.date) :
              /\ DOMAIN Cell(sheets[SheetName(last.date)], 3, c) = {"sum"}
              /\ DOMAIN Cell(sheets[SheetName(last.date)], 4, c) = {"quot"}
              /\ \A row \in FIRST_EMPLOYEE_ROW..FormulaLastRow :
                    DOMAIN Cell(sheets[SheetName(last.date)], row, c) = {"prod"}
        /\ last.op = "submit_daily_tips" =>
              Cell(sheets[SheetName(last.date)], 2, last.hours_col + 1) = Num(last.amount)
        /\ (last.op = "submit_hours" /\ last.err = "none") =>
              Cell(sheets[SheetName(last.date)], last.row, last.hours_col) = Num(last.amount)

----------------------------------------------------------------------------
(* The Settings tab and the endpoints /auth/verify and /manager/auth *)

SETTINGS_TAB == <<"S","e","t","t","i","n","g","s">>
\* the keys a record is read by, in the order they are tried
NAME_KEYS == << <<"N","a","m","e">>, <<"n","a","m","e">>,
                <<"E","m","p","l","o","y","e","e"," ","N","a","m","e">>,
                <<"e","m","p","l","o","y","e","e"," ","n","a","m","e">> >>
PIN_KEYS == << <<"P","I","N">>, <<"p","i","n">>, <<"P","i","n">> >>
manager_password ==
    <<"m","a","n","a","g","e","r","2","0","2","4">>

\* record.get(k1) or record.get(k2) or ... or "": the value under the first key that
\* heads a column of the tab and has a non-empty value in the row
RECURSIVE FirstValue(_, _, _)
FirstValue(cells, row, keys) ==
    IF keys = <<>> THEN <<>>
    ELSE IF \E c \in 1..Len(row_values(cells, 1)) :
               row_values(cells, 1)[c] = Head(keys) /\ Value(Cell(cells, row, c)) # <<>>
    THEN Value(Cell(cells, row,
                    CHOOSE c \in 1..Len(row_values(cells, 1)) :
                        row_values(cells, 1)[c] = Head(keys)
                        /\ Value(Cell(cells, row, c)) # <<>>))
    ELSE FirstValue(cells, row, Tail(keys))

\* the employees read from the records of the tab from row `row` on
RECURSIVE EmployeesFrom(_, _)
EmployeesFrom(cells, row) ==
    IF row > Max({k[1] : k \in DOMAIN cells}) THEN <<>>
    ELSE (IF Strip(FirstValue(cells, row, NAME_KEYS)) # <<>>
             /\ Strip(FirstValue(cells, row, PIN_KEYS)) # <<>>
          THEN << [name |-> Strip(FirstValue(cells, row, NAME_KEYS)),
                   pin |-> Strip(FirstValue(cells, row, PIN_KEYS))] >>
          ELSE <<>>)
         \o EmployeesFrom(cells, row + 1)

\* get_employee_settings(): the employees, or the exception for a missing tab
get_employee_settings(book) ==
    IF SETTINGS_TAB \notin DOMAIN book THEN [err |-> "settings", employees |-> <<>>]
    ELSE [err |-> "none", employees |-> EmployeesFrom(book[SETTINGS_TAB], 2)]

\* verify_employee_pin comparing the names as they are written
verify_employee_pin_CaseSensitive(book, name, pin) ==
    /\ get_employee_settings(book).err = "none"
    /\ \E i \in DOMAIN get_employee_settings(book).employees :
          /\ get_employee_settings(book).employees[i].name = name
          /\ get_employee_settings(book).employees[i].pin = pin

\* verify_employee_pin(name, pin): any exception is answered False
verify_employee_pin(book, name, pin) ==
    /\ get_employee_settings(book).err = "none"
    /\ \E i \in DOMAIN get_employee_settings(book).employees :
          /\ Lower(get_employee_settings(book).employees[i].name) = Lower(name)
          /\ get_employee_settings(book).employees[i].pin = pin

\* POST /auth/verify: 200 with success true or false; 500 only if the check raises,
\* which verify_employee_pin never does
api_verify_auth(book, name, pin) ==
    [status |-> 200, success |-> verify_employee_pin(book, name, pin),
     message |-> IF verify_employee_pin(book, name, pin) THEN "Authentication successful"
                 ELSE "Invalid credentials"]

\* POST /manager/auth: the token is a constant, the server keeps no session
api_manager_auth(password) ==
    [status |-> 200, success |-> password = manager_password,
     message |-> IF password = manager_password THEN "Authentication successful"
                 ELSE "Invalid password"]

\* POST /submit-hours with the roster read from the Settings tab
api_submit_hours_from_settings(book, employee_name, date, start_time, end_time, today) ==
    IF ~is_month_closed(date, today) /\ get_employee_settings(book).err # "none"
    THEN Response(500, 0, NoResult(book))
    ELSE api_submit_hours(book,
                          {get_employee_settings(book).employees[i].name :
                               i \in DOMAIN get_employee_settings(book).employees},
                          employee_name, date, start_time, end_time, today)

\* the Settings tab: a header row and the records under it
SettingsTab(records) ==
    [k \in {<<r, c>> : r \in 1..(Len(records) + 1), c \in 1..2} |->
        IF k[1] = 1 THEN Text(IF k[2] = 1 THEN NAME_KEYS[1] ELSE PIN_KEYS[1])
        ELSE Text(records[k[1] - 1][k[2]])]

\* the tabs the spreadsheet may start with: none; two employees and a record without a PIN
SettingsChoices ==
    { <<>>,
      SETTINGS_TAB :> SettingsTab(<< << <<"A","l"," ">>, <<"1","2","3","4">> >>,
                                     << <<"B","o">>, <<>> >>,
                                     << <<"C","y">>, <<"0","0","7","0">> >> >>) }
AuthNames == { <<"a","L">>, <<"B","o">>, <<"C","y">> }
AuthPins == { <<"1","2","3","4">>, <<"0","0","7","0">> }
Passwords == { manager_password, <<"g","u","e","s","s">> }
Requesters == {"manager", "waiter"}
AuthDate == MkDate(2026, 1, 10)
AuthMoment == Moment(2026, 1, 20, 0)

\* the requests so far leave a record: the last request, whether it had no Settings tab
\* to read, and the requesters that /manager/auth has answered with success
AuthRecord(op, who, name, secret, resp, roster_missing, authenticated) ==
    [op |-> op, who |-> who, name |-> name, secret |-> secret, status |-> resp.status,
     success |-> resp.success, message |-> resp.message,
     roster_missing |-> roster_missing, authenticated |-> authenticated]

InitAuth ==
    /\ sheets \in SettingsChoices
    /\ accepted = <<>>
    /\ last = AuthRecord("none", "", <<>>, <<>>,
                         [status |-> 0, success |-> FALSE, message |-> ""], FALSE, {})
    /\ nops = 0
    /\ procs = <<>>

VerifyAuth(who, name, pin) ==
    /\ nops < MaxOps
    /\ last' = AuthRecord("api_verify_auth", who, name, pin,
                          api_verify_auth(sheets, name, pin),
                          SETTINGS_TAB \notin DOMAIN sheets, last.authenticated)
    /\ nops' = nops + 1
    /\ UNCHANGED <<sheets, accepted, procs>>

ManagerAuth(who, password) ==
    /\ nops < MaxOps
    /\ last' = AuthRecord("api_manager_auth", who, <<>>, password,
                          api_manager_auth(password), FALSE,
                          IF api_manager_auth(password).success
                          THEN last.authenticated \cup {who} ELSE last.authenticated)
    /\ nops' = nops + 1
    /\ UNCHANGED <<sheets, accepted, procs>>

AuthSubmitHours(who, employee_name) ==
    /\ nops < MaxOps
    /\ \E resp \in {api_submit_hours_from_settings(sheets, employee_name, AuthDate,
                                                   TimeText(9, 0), TimeText(17, 0),
                                                   AuthMoment)} :
           /\ sheets' = resp.r.book
           /\ last' = AuthRecord("api_submit_hours", who, employee_name, <<>>,
                                 [status |-> resp.status, success |-> resp.status = 200,
                                  message |-> resp.r.err],
                                 SETTINGS_TAB \notin DOMAIN sheets, last.authenticated)
           /\ accepted' = Accept(accepted, employee_name, AuthDate, resp.hours, resp.r)
    /\ nops' = nops + 1
    /\ UNCHANGED procs

AuthSubmitDailyTip(who, total_tips) ==
    /\ nops < MaxOps
    /\ \E resp \in {api_submit_daily_tip(sheets, AuthDate, total_tips, AuthMoment)} :
           /\ sheets' = resp.r.book
           /\ last' = AuthRecord("api_submit_daily_tip", who, <<>>, <<>>,
                                 [status |-> resp.status, success |-> resp.status = 200,
                                  message |-> resp.r.err],
                                 FALSE, last.authenticated)
    /\ nops' = nops + 1
    /\ UNCHANGED <<accepted, procs>>

NextAuth ==
    \/ \E who \in Requesters, name \in AuthNames, pin \in AuthPins :
          VerifyAuth(who, name, pin)
    \/ \E who \in Requesters, password \in Passwords : ManagerAuth(who, password)
    \/ \E who \in Requesters, name \in AuthNames : AuthSubmitHours(who, name)
    \/ \E who \in Requesters, t \in TipValues : AuthSubmitDailyTip(who, t)

SpecAuth == InitAuth /\ [][NextAuth]_vars

\* C21: a request that needs the roster while the Settings tab is missing is answered
\* with a server error of the service-unavailable kind, never as an ordinary
\* authentication failure ("Invalid credentials") or any other answer.
C21_MissingRosterUnavailable ==
    (last.op \in {"api_verify_auth", "api_submit_hours"} /\ last.roster_missing) =>
        /\ last.status >= 500
        /\ last.message # "Invalid credentials"

\* C23: verify_employee_pin(name, pin) is True exactly when the roster holds an entry
\* whose name equals name up to case and whose PIN equals pin exactly: a wrong PIN, an
\* unknown employee and a missing roster are all answered False.  The entries of the
\* roster are the records of the Settings tab with a name and a PIN, both stripped.
C23_PinVerified ==
    last.op = "api_verify_auth" =>
        (last.success <=>
            /\ SETTINGS_TAB \in DOMAIN sheets
            /\ \E k \in DOMAIN sheets[SETTINGS_TAB] :
                  /\ k[1] > 1 /\ k[2] = 1
                  /\ Strip(Value(sheets[SETTINGS_TAB][k])) # <<>>
                  /\ Lower(Strip(Value(sheets[SETTINGS_TAB][k]))) = Lower(last.name)
                  /\ Strip(Value(Cell(sheets[SETTINGS_TAB], k[1], 2))) = last.secret)

C23_Witness ==
    /\ last.op = "api_verify_auth" /\ last.success /\ last.status = 200
    /\ last.name = <<"a","L">> /\ last.secret = <<"1","2","3","4">>
    /\ Cell(sheets[SETTINGS_TAB], 2, 1) = Text(<<"A","l"," ">>)

\* C24: the total-amount cell of a date is written only on the manager-only path: a
\* /manager/submit-daily-tip request that wrote the cell was made by a requester whom
\* /manager/auth had answered with success before.
C24_TipWriteAfterManagerAuth ==
    (last.op = "api_submit_daily_tip" /\ last.status = 200) =>
        last.who \in last.authenticated

----------------------------------------------------------------------------
(* Month sheets and date blocks under calls run one at a time *)

C25_OneSheetPerMonth ==
    /\ last.op # "none" =>
          /\ last.title = SheetName(MkDate(last.date.y, last.date.m, 1))
          /\ last.title = SheetName(MkDate(last.date.y, last.date.m, 31))
    /\ \A d1 \in Dates, d2 \in Dates : \A t1 \in DOMAIN sheets, t2 \in DOMAIN sheets :
          (/\ d1.y = d2.y /\ d1.m = d2.m
           /\ HeadersOf(sheets[t1], d1) # {} /\ HeadersOf(sheets[t2], d2) # {}) => t1 = t2

C25_Witness ==
    /\ nops = 2
    /\ \E d1 \in Dates, d2 \in Dates :
          /\ d1.d # d2.d /\ d1.m = d2.m /\ d1.y = d2.y
          /\ SheetName(d1) \in DOMAIN sheets
          /\ HeadersOf(sheets[SheetName(d1)], d1) # {}
          /\ HeadersOf(sheets[SheetName(d1)], d2) # {}
          /\ DOMAIN sheets = {SheetName(d1)}

\* C26: month sheets are independent.  A call for a date of month M leaves every other
\* sheet as it was and adds no sheet but that of M; and the row of an employee is
\* assigned within the sheet of M alone: the row the employee already has there, or
\* else the first row after the last name of that sheet, whatever row the employee
\* has in the sheet of another month.
C26_MonthSheetsIndependent ==
    [][IsCall =>
          /\ DOMAIN sheets' \subseteq DOMAIN sheets \cup {SheetName(last'.date)}
          /\ \A t \in DOMAIN sheets :
                t # SheetName(last'.date) => (t \in DOMAIN sheets' /\ sheets'[t] = sheets[t])
          /\ (last'.op = "submit_hours" /\ last'.err = "none") =>
                /\ last'.row \in RowsOf(sheets'[last'.title], last'.name)
                /\ IF last'.title \in DOMAIN sheets
                      /\ RowsOf(sheets[last'.title], last'.name) # {}
                   THEN last'.row \in RowsOf(sheets[last'.title], last'.name)
                   ELSE last'.row =
                          Max({FIRST_EMPLOYEE_ROW}
                              \cup {k[1] + 1 : k \in {x \in DOMAIN sheets'[last'.title] :
                                                        x[2] = NAME_COL /\ x[1] # last'.row}})]_vars

\* the employee of the last call has row 7 in one sheet and row 6 in that of the call
C26_Witness ==
    /\ nops = 2 /\ last.op = "submit_hours" /\ last.err = "none"
    /\ last.sheet_created
    /\ last.row = FIRST_EMPLOYEE_ROW
    /\ \E t \in DOMAIN sheets :
          /\ t # last.title
          /\ RowsOf(sheets[t], last.name) = {FIRST_EMPLOYEE_ROW + 1}

\* C27: under calls run one at a time a calendar date appears in at most one header
\* cell of its sheet: the cells of row 5 from column C on, other than the HOURS
\* headers, hold as many texts as there are cells, and each date submitted has at most
\* one header.
C27_DateHeaderUnique ==
    \A t \in DOMAIN sheets :
        /\ \A d \in Dates : Cardinality(HeadersOf(sheets[t], d)) <= 1
        /\ Cardinality({sheets[t][k] : k \in {x \in DOMAIN sheets[t] :
                                 /\ x[1] = HEADER_ROW /\ x[2] >= FIRST_DATE_COL
                                 /\ sheets[t][x] # Text(HOURS)}})
             = Cardinality({x \in DOMAIN sheets[t] :
                                 /\ x[1] = HEADER_ROW /\ x[2] >= FIRST_DATE_COL
                                 /\ sheets[t][x] # Text(HOURS)})

\* the second call found the header the first call had written
C27_Witness ==
    /\ nops = 2 /\ last.op = "submit_daily_tips" /\ last.err = "none"
    /\ ~last.col_created /\ ~last.sheet_created
    /\ HeadersOf(sheets[last.title], last.date) = {last.hours_col + 1}
    /\ \E d \in Dates : d # last.date /\ HeadersOf(sheets[last.title], d) # {}

C29_SheetCreatedOnce ==
    [][IsCall =>
          /\ DOMAIN sheets' = DOMAIN sheets \cup {SheetName(last'.date)}
          /\ last'.sheet_created <=> SheetName(last'.date) \notin DOMAIN sheets
          /\ \A t \in DOMAIN sheets : DOMAIN sheets[t] \subseteq DOMAIN sheets'[t]]_vars

\* the second call of a month found the sheet the first call had created
C29_Witness ==
    /\ nops = 2 /\ last.op = "submit_hours" /\ last.err = "none"
    /\ ~last.sheet_created /\ last.col_created
    /\ DOMAIN sheets = {last.title}
    /\ last.row = FIRST_EMPLOYEE_ROW
    /\ Cell(sheets[last.title], FIRST_EMPLOYEE_ROW, FIRST_DATE_COL) = EMPTY

----------------------------------------------------------------------------
(* The sentinel cell C2 under interleaved submissions *)

----------------------------------------------------------------------------
(* Failed and interrupted calls *)

\* C31: a submit_hours call that fails with the capacity error or the duplicate-entry
\* error leaves the spreadsheet exactly as it was before the call.
C31_FailedCallWritesNothing ==
    [][(IsCall /\ last'.op = "submit_hours" /\ last'.err \in {"capacity", "duplicate"}) =>
          sheets' = sheets]_vars

\* get_or_create_date_column(date, worksheet) when the remote store fails after the
\* first k writes of a new block: write k+1 raises and nothing catches it
get_or_create_date_column_interrupted(W, date, k) ==
    IF FindDateHeader(row_values(W.cells, HEADER_ROW), DateFormatted(date)) # 0
    THEN [W |-> W, created |-> FALSE, err |-> "none",
          hours_col |-> FindDateHeader(row_values(W.cells, HEADER_ROW),
                                       DateFormatted(date)) - 1]
    ELSE [W |-> ApplyWrites(W, SubSeq(DateColumnWrites(
                                          NextDateColumn(row_values(W.cells, HEADER_ROW)),
                                          DateFormatted(date)), 1, k)),
          hours_col |-> NextDateColumn(row_values(W.cells, HEADER_ROW)),
          created |-> TRUE, err |-> "remote"]

\* submit_hours with such a failure, from the date column on
submit_hours_interrupted_in_sheet(book, ms, employee_name, date, hours, k) ==
    submit_hours_failing_in_column(
        book, ms, get_or_create_date_column_interrupted(ms.W, date, k), employee_name, hours)

\* submit_hours(employee_name, date, hours) with such a failure
submit_hours_interrupted(book, employee_name, date, hours, k) ==
    submit_hours_interrupted_in_sheet(book, get_or_create_month_sheet(book, date),
                                      employee_name, date, hours, k)

SubmitHoursInterrupted(employee_name, date, hours, k) ==
    /\ nops < MaxOps
    /\ \E r \in {submit_hours_interrupted(sheets, employee_name, date, hours, k)} :
           /\ sheets' = r.book
           /\ last' = CallRecord("submit_hours", employee_name, date, hours,
                                 Key(employee_name, date) \in DOMAIN accepted, r)
           /\ accepted' = Accept(accepted, employee_name, date, hours, r)
    /\ nops' = nops + 1
    /\ UNCHANGED procs

\* calls run one at a time, some of them interrupted while they write a new date block
NextInterrupted ==
    \/ \E e \in ConcNames, d \in ConcDates, h \in HoursValues : SubmitHours(e, d, h)
    \/ \E d \in ConcDates, t \in TipValues : SubmitDailyTips(d, t)
    \/ \E e \in ConcNames, d \in ConcDates, h \in HoursValues, k \in 1..7 :
          SubmitHoursInterrupted(e, d, h, k)

SpecInterrupted == InitFaults /\ [][NextInterrupted]_vars

\* C32: after get_or_create_date_column was interrupted by a failure of the remote
\* store, a later call for the same date leaves a complete block: after every call that
\* returns, the date of the call has its header with the hours-sum formula, the rate
\* formula and the payout formulas of rows 6..70 under it.
C32_BlockCompleteAfterRetry ==
    (last.op # "none" /\ last.err = "none") =>
        \E c \in HeadersOf(sheets[last.title], last.date) :
            /\ DOMAIN Cell(sheets[last.title], 3, c) = {"sum"}
            /\ DOMAIN Cell(sheets[last.title], 4, c) = {"quot"}
            /\ \A row \in FIRST_EMPLOYEE_ROW..FormulaLastRow :
                  DOMAIN Cell(sheets[last.title], row, c) = {"prod"}

----------------------------------------------------------------------------
(* The grid of a month sheet: add_worksheet(rows=100, cols=50) *)

\* submit_daily_tips on a worksheet of SHEET_ROWS x SHEET_COLS cells.  The code never
\* resizes the worksheet and never compares a column with its width, so what becomes of
\* a write outside the grid is the store's choice: it refuses the write and the
\* exception ends the call (refused), or it takes the write.  The first write of a call
\* that can fall outside the grid is the first of a new date block, so a refused call
\* has written nothing.
submit_daily_tips_in_grid(book, r, refused) ==
    IF \/ ~refused
       \/ \A w \in {r.log[i] : i \in DOMAIN r.log} :
              \A x \in w : x[1] <= SHEET_ROWS /\ x[2] <= SHEET_COLS
    THEN r
    ELSE [r EXCEPT !.book = book, !.err = "remote"]

\* the result of the last of the calls that submit the totals of the days day..n of
\* January, made one after the other from the result r
RECURSIVE DaysSubmitted(_, _, _)
DaysSubmitted(r, day, n) ==
    IF day > n \/ r.err # "none" THEN r
    ELSE DaysSubmitted(submit_daily_tips(r.book, MkDate(2026, 1, day), 50000), day + 1, n)

InitGrid ==
    /\ \E n \in {0, 22, 23, 24} :
           sheets = DaysSubmitted([book |-> <<>>, err |-> "none"], 1, n).book
    /\ accepted = <<>>
    /\ last = NoCall
    /\ nops = 0
    /\ procs = <<>>

SubmitDailyTipsInGrid(date, total_tips, refused) ==
    /\ nops < MaxOps
    /\ \E r \in {submit_daily_tips_in_grid(sheets,
                                           submit_daily_tips(sheets, date, total_tips),
                                           refused)} :
           /\ sheets' = r.book
           /\ last' = CallRecord("submit_daily_tips", <<>>, date, total_tips, FALSE, r)
    /\ nops' = nops + 1
    /\ UNCHANGED <<accepted, procs>>

NextGrid ==
    \E day \in 1..31, refused \in BOOLEAN :
        SubmitDailyTipsInGrid(MkDate(2026, 1, day), 42050, refused)

SpecGrid == InitGrid /\ [][NextGrid]_vars

\* C33: every column pair get_or_create_date_column allocates lies within the 50
\* columns the month sheet was created with, for each of the up to 31 dates of a month:
\* the tips column of a newly allocated pair, the one after its hours column, is at
\* most column SHEET_COLS.
C33_PairWithinGrid ==
    (last.op = "submit_daily_tips" /\ last.col_created) =>
        last.hours_col + 1 <= SHEET_COLS

----------------------------------------------------------------------------
(* Interleaved allocations for different dates and for different employees *)

\* C34: when submissions that allocate column pairs for two different new dates
\* interleave, no date header once written is overwritten by another date, and the
\* hours of every submission that succeeded are in a column whose header, one column
\* to the right, is the date of the submission.
C34_HeadersAndHoursKept ==
    [][procs[1].date # procs[2].date =>
          /\ \A t \in DOMAIN sheets : \A d \in ConcDates :
                \A c \in HeadersOf(sheets[t], d) :
                   \A other \in ConcDates \ {d} : c \notin HeadersOf(sheets'[t], other)
          /\ \A p \in Pids :
                (procs'[p].pc = "done" /\ procs'[p].err = "none") =>
                    procs'[p].hours_col + 1
                        \in HeadersOf(sheets'[procs'[p].title], procs'[p].date)]_vars

\* C35: when submissions that allocate rows for two different new employees
\* interleave, no name cell once written is overwritten by the name of a different
\* employee, and the hours of every submission that succeeded are in a row whose name
\* is the employee of the submission.
C35_NamesAndHoursKept ==
    [][NormName(procs[1].name) # NormName(procs[2].name) =>
          /\ \A t \in DOMAIN sheets : \A r \in NameRows(sheets[t]) :
                NormName(Value(Cell(sheets'[t], r, NAME_COL)))
                    = NormName(Value(Cell(sheets[t], r, NAME_COL)))
          /\ \A p \in Pids :
                (procs'[p].pc = "done" /\ procs'[p].err = "none") =>
                    procs'[p].row \in RowsOf(sheets'[procs'[p].title], procs'[p].name)]_vars

----------------------------------------------------------------------------
(* The connection of the service object to the remote store *)

\* Python's None, the value of _client and _spreadsheet after __init__
None == <<>>

\* the spreadsheet keys settings.google_sheet_id may be configured with
SheetIds == {"sheet-a", "sheet-b"}

\* connect() on the service object svc.  creds_ok: _get_credentials and
\* gspread.authorize succeed; open_ok: open_by_key succeeds; either raises otherwise.
\* The result tells the object after the call, whether the call raised, and how many
\* authorizations and opens it performed.  The objects created are numbered.
connect_Always(svc, creds_ok, open_ok) ==
    IF ~creds_ok
    THEN [svc |-> svc, raised |-> TRUE, n_authorize |-> 0, n_open |-> 0]
    ELSE [svc |-> [svc EXCEPT !.client = <<"client", svc.n_clients + 1>>,
                              !.n_clients = @ + 1,
                              !.spreadsheet = IF open_ok THEN <<svc.key, svc.n_handles + 1>>
                                              ELSE @,
                              !.n_handles = IF open_ok THEN @ + 1 ELSE @],
          raised |-> ~open_ok, n_authorize |-> 1, n_open |-> 1]

connect(svc, creds_ok, open_ok) ==
    IF svc.client = None
    THEN IF ~creds_ok
         THEN [svc |-> svc, raised |-> TRUE, n_authorize |-> 0, n_open |-> 0]
         ELSE IF ~open_ok
         THEN [svc |-> [svc EXCEPT !.client = <<"client", svc.n_clients + 1>>,
                                   !.n_clients = @ + 1],
               raised |-> TRUE, n_authorize |-> 1, n_open |-> 1]
         ELSE [svc |-> [svc EXCEPT !.client = <<"client", svc.n_clients + 1>>,
                                   !.n_clients = @ + 1,
                                   !.spreadsheet = <<svc.key, svc.n_handles + 1>>,
                                   !.n_handles = @ + 1],
               raised |-> FALSE, n_authorize |-> 1, n_open |-> 1]
    ELSE [svc |-> svc, raised |-> FALSE, n_authorize |-> 0, n_open |-> 0]

\* get_spreadsheet(): connects when _spreadsheet is None, then returns _spreadsheet;
\* an exception of connect() passes through and nothing is returned
get_spreadsheet(svc, creds_ok, open_ok) ==
    IF svc.spreadsheet = None
    THEN [returned |-> connect(svc, creds_ok, open_ok).svc.spreadsheet]
             @@ connect(svc, creds_ok, open_ok)
    ELSE [svc |-> svc, raised |-> FALSE, n_authorize |-> 0, n_open |-> 0,
          returned |-> svc.spreadsheet]

\* health_check(): "connected" when get_spreadsheet returned an object whose title can
\* be read, "error" when it raised or returned None (sheet.title raises on None)
health_check(svc, creds_ok, open_ok) ==
    [status |-> IF \/ get_spreadsheet(svc, creds_ok, open_ok).raised
                   \/ get_spreadsheet(svc, creds_ok, open_ok).returned = None
                THEN "error" ELSE "connected"]
        @@ get_spreadsheet(svc, creds_ok, open_ok)

\* what a call on the service object did
ConnRecord(op, r) ==
    [op |-> op, raised |-> r.raised, n_authorize |-> r.n_authorize, n_open |-> r.n_open,
     returned |-> IF "returned" \in DOMAIN r THEN r.returned ELSE None,
     status |-> IF "status" \in DOMAIN r THEN r.status ELSE ""]

InitConnect ==
    /\ \E key \in SheetIds :
          procs = [client |-> None, spreadsheet |-> None, key |-> key,
                   n_clients |-> 0, n_handles |-> 0]
    /\ last = ConnRecord("none", [raised |-> FALSE, n_authorize |-> 0, n_open |-> 0])
    /\ sheets = <<>>
    /\ accepted = <<>>
    /\ nops = 0

\* lifespan(): connect() at startup, with any exception logged and dropped
Lifespan(creds_ok, open_ok) ==
    /\ nops = 0
    /\ \E r \in {connect(procs, creds_ok, open_ok)} :
           /\ procs' = r.svc
           /\ last' = ConnRecord("lifespan", [r EXCEPT !.raised = FALSE])
    /\ nops' = nops + 1
    /\ UNCHANGED <<sheets, accepted>>

Connect(creds_ok, open_ok) ==
    /\ nops < MaxOps
    /\ \E r \in {connect(procs, creds_ok, open_ok)} :
           /\ procs' = r.svc
           /\ last' = ConnRecord("connect", r)
    /\ nops' = nops + 1
    /\ UNCHANGED <<sheets, accepted>>

GetSpreadsheet(creds_ok, open_ok) ==
    /\ nops < MaxOps
    /\ \E r \in {get_spreadsheet(procs, creds_ok, open_ok)} :
           /\ procs' = r.svc
           /\ last' = ConnRecord("get_spreadsheet", r)
    /\ nops' = nops + 1
    /\ UNCHANGED <<sheets, accepted>>

HealthCheck(creds_ok, open_ok) ==
    /\ nops < MaxOps
    /\ \E r \in {health_check(procs, creds_ok, open_ok)} :
           /\ procs' = r.svc
           /\ last' = ConnRecord("health_check", r)
    /\ nops' = nops + 1
    /\ UNCHANGED <<sheets, accepted>>

\* submit_hours() through the service object: get_or_create_month_sheet takes the
\* handle from get_spreadsheet(); the call ends with an exception and nothing written
\* when get_spreadsheet raised or handed out None (sheet.worksheet raises on None)
ServiceSubmitHours(employee_name, date, hours, creds_ok, open_ok) ==
    /\ nops < MaxOps
    /\ \E g \in {get_spreadsheet(procs, creds_ok, open_ok)} :
           /\ procs' = g.svc
           /\ IF g.raised \/ g.returned = None
              THEN /\ sheets' = sheets
                   /\ last' = ConnRecord("submit_hours",
                                         [status |-> "error"] @@ [g EXCEPT !.raised = TRUE])
              ELSE /\ sheets' = submit_hours(sheets, employee_name, date, hours).book
                   /\ last' = ConnRecord("submit_hours",
                          [status |-> submit_hours(sheets, employee_name, date, hours).err]
                              @@ g)
    /\ nops' = nops + 1
    /\ UNCHANGED accepted

NextConnect ==
    \E creds_ok \in BOOLEAN, open_ok \in BOOLEAN :
        \/ Lifespan(creds_ok, open_ok)
        \/ Connect(creds_ok, open_ok)
        \/ GetSpreadsheet(creds_ok, open_ok)
        \/ HealthCheck(creds_ok, open_ok)
        \/ \E e \in ConcNames, d \in ConcDates, h \in HoursValues :
              ServiceSubmitHours(e, d, h, creds_ok, open_ok)

SpecConnect == InitConnect /\ [][NextConnect]_vars

\* C36: after a successful connect the client and the spreadsheet handle have been
\* created exactly once, and every further call on the service object performs no new
\* authorization and no new open, leaves both objects as they are, and, when it is
\* get_spreadsheet, returns that same handle without raising.
C36_ConnectedOnce ==
    [][procs.spreadsheet # None =>
          /\ procs.n_clients = 1 /\ procs.n_handles = 1
          /\ procs' = procs
          /\ last'.n_authorize = 0 /\ last'.n_open = 0
          /\ last'.op = "get_spreadsheet" =>
                (~last'.raised /\ last'.returned = procs.spreadsheet)]_vars

\* a get_spreadsheet call made on the connected service object has returned
C36_Witness ==
    /\ nops = 2
    /\ last.op = "get_spreadsheet"
    /\ last.n_authorize = 0 /\ last.n_open = 0
    /\ last.returned = procs.spreadsheet
    /\ procs.spreadsheet # None
    /\ procs.n_clients = 1 /\ procs.n_handles = 1

\* C37: get_spreadsheet either returns a connected handle or raises, and never returns
\* None, also after an earlier connect attempt that authorized the client and failed
\* to open the spreadsheet; a call made after such a failure attempts the connection
\* again.
C37_HandleOrRaises ==
    [][last'.op = "get_spreadsheet" =>
          /\ last'.raised \/ last'.returned # None
          /\ (procs.client # None /\ procs.spreadsheet = None) => last'.n_open = 1]_vars

----------------------------------------------------------------------------
(* Closure over time *)

\* C38: closure is monotonic in time: for a fixed date, once is_month_closed has
\* reported closed it reports closed at every later moment; and a date in the month of
\* the call or in a later month is never reported closed.
C38_ClosureMonotonic ==
    last.op = "is_month_closed" =>
        /\ last.was_closed => last.closed
        /\ (\/ last.date.y > last.today.y
            \/ last.date.y = last.today.y /\ last.date.m >= last.today.m) => ~last.closed

\* a call that reports closed after an earlier call for the date reported closed
C38_Witness ==
    /\ last.op = "is_month_closed"
    /\ last.was_closed /\ last.closed
    /\ last.date = MkDate(2026, 1, 15)
    /\ last.today = Moment(2026, 12, 1, 0)

----------------------------------------------------------------------------
(* The hours the endpoint stores *)

----------------------------------------------------------------------------
(* _col_index_to_letter, applied to a column index *)

\* the largest column index converted
MaxIndex == 704

InitLetters ==
    /\ sheets = <<>> /\ accepted = <<>> /\ nops = 0 /\ procs = <<>>
    /\ last = NoCall

ColIndexToLetter(col_index) ==
    /\ last.op = "none"
    /\ last' = [op |-> "_col_index_to_letter", col_index |-> col_index,
                letters |-> _col_index_to_letter(col_index)]
    /\ UNCHANGED <<sheets, accepted, nops, procs>>

NextLetters == \E col_index \in 1..MaxIndex : ColIndexToLetter(col_index)

SpecLetters == InitLetters /\ [][NextLetters]_vars

\* the number a text of capital letters stands for in bijective base 26:
\* A = 1, ..., Z = 26, and a text s followed by a letter x is 26 * s + x
RECURSIVE LetterValue(_)
LetterValue(s) ==
    IF s = <<>> THEN 0
    ELSE 26 * LetterValue(SubSeq(s, 1, Len(s) - 1))
             + (CHOOSE i \in 1..26 : UPPER[i] = s[Len(s)])

\* C40: _col_index_to_letter is the bijective base-26 lettering of the index: its
\* result is a non-empty text of capital letters that stands for the index, so no two
\* indices of 1..MaxIndex get the same letters; 1 gives A, 26 Z, 27 AA, 52 AZ and
\* 703 AAA.
C40_BijectiveLettering ==
    last.op = "_col_index_to_letter" =>
        /\ last.letters # <<>>
        /\ \A i \in 1..Len(last.letters) : \E k \in 1..26 : last.letters[i] = UPPER[k]
        /\ LetterValue(last.letters) = last.col_index
        /\ \A other \in 1..MaxIndex :
              _col_index_to_letter(other) = last.letters => other = last.col_index
        /\ last.col_index = 1 => last.letters = <<"A">>
        /\ last.col_index = 26 => last.letters = <<"Z">>
        /\ last.col_index = 27 => last.letters = <<"A","A">>
        /\ last.col_index = 52 => last.letters = <<"A","Z">>
        /\ last.col_index = 703 => last.letters = <<"A","A","A">>

C40_Witness ==
    /\ last.op = "_col_index_to_letter"
    /\ last.col_index = 703
    /\ last.letters = <<"A","A","A">>

====
